---- MODULE Spec2Model ----
(***************************************************************************)
(* Model of the AI assistant of the diagram editor: the response parser   *)
(* (src/src/utils/aiHelpers.js), the chat panel's send and apply handlers *)
(* (AIChatPanel) and the chat state they act on (AIContext.jsx).          *)
(*                                                                         *)
(* JavaScript strings are TLA+ strings; positions are 1-based here, so a  *)
(* JavaScript index k is the position k + 1.                               *)
(***************************************************************************)
EXTENDS Integers, Sequences, FiniteSets, TLC

VARIABLES
    tables, relationships, notes,   \* the diagram
    undoStack, redoStack,           \* its history
    messages, isLoading, error,     \* AIContext
    inputValue,                     \* the panel's text area
    requests,                       \* chat requests awaiting their response
    lastSend,                       \* the way the last handleSendMessage went
    batch,                          \* the locals of the last handleApplySuggestion
    prose, blocks, parsed,          \* a response text and what parseAIResponse made of it
    localStorage,                   \* the stored text under each key, or null
    settings, aiConfig, isOpen,     \* SettingsContext and AIContext
    app,                            \* "unmounted", "running", or "crashed" by an uncaught error
    formData, testRequests, toast,  \* the settings form, its connection tests, its last toast
    areas, types, enums,            \* the rest of the diagram
    context                         \* what buildDiagramContext returned


(***************************************************************************)
(* Bounds                                                                  *)
(***************************************************************************)
MaxMessages == 3
MaxTables == 3
MaxRelationships == 2
MaxNotes == 1
MaxBlocks == 2

(***************************************************************************)
(* Strings: the String.prototype operations the code uses.                 *)
(***************************************************************************)
Ch(s, i) == SubSeq(s, i, i)

UpperAlphabet == "ABCDEFGHIJKLMNOPQRSTUVWXYZ"
LowerAlphabet == "abcdefghijklmnopqrstuvwxyz"
DigitAlphabet == "0123456789"

UpperLetters == {Ch(UpperAlphabet, k) : k \in 1..Len(UpperAlphabet)}
LowerLetters == {Ch(LowerAlphabet, k) : k \in 1..Len(LowerAlphabet)}
Digits == {Ch(DigitAlphabet, k) : k \in 1..Len(DigitAlphabet)}
Letters == UpperLetters \cup LowerLetters
WhiteSpace == {" ", "\n", "\t", "\r"}

LowerOf == [c \in UpperLetters |->
              Ch(LowerAlphabet, CHOOSE k \in 1..Len(UpperAlphabet) : Ch(UpperAlphabet, k) = c)]
UpperOf == [c \in LowerLetters |->
              Ch(UpperAlphabet, CHOOSE k \in 1..Len(LowerAlphabet) : Ch(LowerAlphabet, k) = c)]

RECURSIVE MapChars(_, _, _, _, _)
\* the characters lo..hi of s, each character of from replaced by its image
\* (by halves, to keep the recursion shallow)
MapChars(s, lo, hi, from, to) ==
    IF lo > hi THEN ""
    ELSE IF lo = hi THEN (IF Ch(s, lo) \in from THEN to[Ch(s, lo)] ELSE Ch(s, lo))
    ELSE LET mid == (lo + hi) \div 2
         IN  MapChars(s, lo, mid, from, to) \o MapChars(s, mid + 1, hi, from, to)

\* String.prototype.toLowerCase / toUpperCase
toLowerCase(s) == MapChars(s, 1, Len(s), UpperLetters, LowerOf)
toUpperCase(s) == MapChars(s, 1, Len(s), LowerLetters, UpperOf)

\* s has sub at position i
HasAt(s, i, sub) == i + Len(sub) - 1 <= Len(s) /\ SubSeq(s, i, i + Len(sub) - 1) = sub

\* String.prototype.indexOf, as a position: 0 when sub does not occur
\* (JavaScript's -1), else the JavaScript index + 1.
indexOf(s, sub) ==
    IF \E i \in 1..(Len(s) + 1) : HasAt(s, i, sub)
    THEN CHOOSE i \in 1..(Len(s) + 1) :
            HasAt(s, i, sub) /\ \A j \in 1..(i - 1) : ~HasAt(s, j, sub)
    ELSE 0

\* String.prototype.includes
includes(s, sub) == \E i \in 1..(Len(s) + 1) : HasAt(s, i, sub)

\* String.prototype.substring(from, to) with JavaScript indexes from <= to
substring(s, from, to) == SubSeq(s, from + 1, to)

Max(a, b) == IF a >= b THEN a ELSE b
Min(a, b) == IF a <= b THEN a ELSE b
Least(S) == CHOOSE x \in S : \A y \in S : x <= y
Greatest(S) == CHOOSE x \in S : \A y \in S : x >= y

\* String.prototype.trim
trim(s) ==
    LET solid == {i \in 1..Len(s) : Ch(s, i) \notin WhiteSpace}
    IN  IF solid = {} THEN "" ELSE SubSeq(s, Least(solid), Greatest(solid))

RECURSIVE FlattenRange(_, _, _)
FlattenRange(xss, lo, hi) ==
    IF lo > hi THEN <<>>
    ELSE IF lo = hi THEN xss[lo]
    ELSE LET mid == (lo + hi) \div 2
         IN  FlattenRange(xss, lo, mid) \o FlattenRange(xss, mid + 1, hi)

\* the concatenation of a sequence of sequences (by halves)
Flatten(xss) == FlattenRange(xss, 1, Len(xss))

(***************************************************************************)
(* Regular expressions: a backtracking matcher with JavaScript's          *)
(* priorities.  A pattern is a tree of                                     *)
(*   lit  a literal                   cls  one character of a class       *)
(*   rep  a class repeated min or more times, greedy or lazy              *)
(*   wb   a word boundary             alt  alternatives, in order          *)
(*   cat  a concatenation                                                  *)
(* Ends(r, s, i) is the sequence of positions at which a match of r that  *)
(* starts at position i of s can end, in the order a backtracking matcher *)
(* tries them; the match the engine reports is the first one.             *)
(***************************************************************************)
Lit(x) == [t |-> "lit", s |-> x]
Cls(c) == [t |-> "cls", c |-> c]
Rep(c, min, greedy) == [t |-> "rep", c |-> c, min |-> min, greedy |-> greedy]
Alt(xs) == [t |-> "alt", xs |-> xs]
Cat(xs) == [t |-> "cat", xs |-> xs]
WordBoundary == [t |-> "wb"]

\* Character classes: any = [\s\S], dot = ., space = \s, word = [a-zA-Z0-9_],
\* ident = [a-zA-Z_], alpha = [a-zA-Z]
InClass(c, k) ==
    CASE k = "any" -> TRUE
      [] k = "dot" -> c # "\n" /\ c # "\r"
      [] k = "space" -> c \in WhiteSpace
      [] k = "word" -> c \in Letters \/ c \in Digits \/ c = "_"
      [] k = "ident" -> c \in Letters \/ c = "_"
      [] k = "alpha" -> c \in Letters

RunUntil(stops, s, i) ==
    IF i > Len(s) THEN 0 ELSE IF stops = {} THEN Len(s) - i + 1 ELSE Least(stops) - i

\* the number of consecutive characters of class k from position i
Run(s, i, k) == RunUntil({j \in i..Len(s) : ~InClass(Ch(s, j), k)}, s, i)

\* a class repeated, m being the length of the run at position i
RepEnds(r, i, m) ==
    IF m < r.min THEN <<>>
    ELSE IF r.greedy THEN [k \in 1..(m - r.min + 1) |-> i + m - (k - 1)]
    ELSE [k \in 1..(m - r.min + 1) |-> i + r.min + (k - 1)]

IsWordAt(s, i) == i >= 1 /\ i <= Len(s) /\ InClass(Ch(s, i), "word")

RECURSIVE Ends(_, _, _)
RECURSIVE CatEnds(_, _, _, _)
RECURSIVE AltEnds(_, _, _, _)

Ends(r, s, i) ==
    CASE r.t = "lit" -> IF HasAt(s, i, r.s) THEN <<i + Len(r.s)>> ELSE <<>>
      [] r.t = "cls" -> IF i <= Len(s) /\ InClass(Ch(s, i), r.c) THEN <<i + 1>> ELSE <<>>
      [] r.t = "rep" -> RepEnds(r, i, Run(s, i, r.c))
      [] r.t = "wb" -> IF IsWordAt(s, i - 1) # IsWordAt(s, i) THEN <<i>> ELSE <<>>
      [] r.t = "alt" -> AltEnds(r.xs, 1, s, i)
      [] r.t = "cat" -> CatEnds(r.xs, 1, s, <<i>>)

\* a concatenation: the ends of the next component from each position reached
\* so far, in order
CatEnds(xs, k, s, ps) ==
    IF k > Len(xs) \/ ps = <<>> THEN ps
    ELSE CatEnds(xs, k + 1, s, Flatten([j \in DOMAIN ps |-> Ends(xs[k], s, ps[j])]))

AltEnds(xs, k, s, i) ==
    IF k > Len(xs) THEN <<>> ELSE Ends(xs[k], s, i) \o AltEnds(xs, k + 1, s, i)

FirstEnd(es) == IF es = <<>> THEN 0 ELSE es[1]

\* the match of r at each start position of s: its end (the position after the
\* match), or 0 when r does not match there
MatchEnds(r, s) == [i \in 1..(Len(s) + 1) |-> FirstEnd(Ends(r, s, i))]

LeftmostOf(ends, starts) ==
    IF starts = {} THEN <<>> ELSE <<Least(starts), ends[Least(starts)]>>

\* the leftmost match at position i or later, given the ends: <<start, end>> or <<>>
NextMatch(ends, i) == LeftmostOf(ends, {j \in DOMAIN ends : j >= i /\ ends[j] # 0})

\* the leftmost match of r in s
FindFirst(r, s) == NextMatch(MatchEnds(r, s), 1)

RECURSIVE MatchesFrom(_, _)
\* the match m and those after it
MatchesAfter(ends, m) ==
    IF m = <<>> THEN <<>>
    ELSE <<m>> \o MatchesFrom(ends, IF m[2] > m[1] THEN m[2] ELSE m[2] + 1)

\* the successive matches of a global pattern, as <<start, end>> pairs
MatchesFrom(ends, i) == MatchesAfter(ends, NextMatch(ends, i))

FindAll(r, s) == MatchesFrom(MatchEnds(r, s), 1)

\* The i flag: the pattern's literals and the text are both lowered (every
\* class the patterns use is closed under case).
RECURSIVE IgnoreCase(_)
IgnoreCase(r) ==
    CASE r.t = "lit" -> Lit(toLowerCase(r.s))
      [] r.t \in {"alt", "cat"} -> [r EXCEPT !.xs = [k \in DOMAIN r.xs |-> IgnoreCase(r.xs[k])]]
      [] OTHER -> r

Subject(s, ci) == IF ci THEN toLowerCase(s) ELSE s
Pattern(r, ci) == IF ci THEN IgnoreCase(r) ELSE r

Matched(s, ms) == [k \in 1..Len(ms) |-> SubSeq(s, ms[k][1], ms[k][2] - 1)]

\* String.prototype.match with a global pattern: the matched substrings
\* (<<>> where JavaScript returns null)
MatchAll(r, ci, s) == Matched(s, FindAll(Pattern(r, ci), Subject(s, ci)))

Without(s, m) == IF m = <<>> THEN s ELSE SubSeq(s, 1, m[1] - 1) \o SubSeq(s, m[2], Len(s))

\* String.prototype.replace(pattern, '') with a pattern that is not global
ReplaceFirst(r, ci, s) == Without(s, FindFirst(Pattern(r, ci), Subject(s, ci)))

Between(s, ms) ==
    [k \in 1..(Len(ms) + 1) |->
        SubSeq(s, IF k = 1 THEN 1 ELSE ms[k - 1][2],
                  IF k > Len(ms) THEN Len(s) ELSE ms[k][1] - 1)]

\* String.prototype.split with a pattern that has no capture group and
\* matches no empty string: the pieces between the successive matches
Split(r, ci, s) == Between(s, FindAll(Pattern(r, ci), Subject(s, ci)))

\* RegExp.prototype.test
Test(r, ci, s) == FindFirst(Pattern(r, ci), Subject(s, ci)) # <<>>


(***************************************************************************)
(* JavaScript values.  An object is a record (an absent property is an    *)
(* absent field) and null is the record Null; an array is a sequence.  A  *)
(* property that holds a string reads as the string undefined when it is  *)
(* absent.  The tables, relationships and notes of a parsed JSON document *)
(* are Arr(items) when they are arrays and NotArr for any other value.    *)
(***************************************************************************)
Null == [jsNull |-> TRUE]
undefined == "<undefined>"
Arr(items) == [isArray |-> TRUE, items |-> items]
NotArr == [isArray |-> FALSE, items |-> <<>>]

IsNull(v) == "jsNull" \in DOMAIN v
Has(obj, key) == key \in DOMAIN obj
\* obj.key for a string-valued property
Prop(obj, key) == IF Has(obj, key) THEN obj[key] ELSE undefined
\* obj.key || dflt
PropOr(obj, key, dflt) == IF Has(obj, key) THEN obj[key] ELSE dflt
\* obj.key && Array.isArray(obj.key), for a property of a parsed document
IsArrayProp(obj, key) == Has(obj, key) /\ obj[key].isArray
\* a string-valued property inside a template literal
Str(v) == IF v = undefined THEN "undefined" ELSE v

(***************************************************************************)
(* JSON.parse, on the documents the responses of this model carry: the    *)
(* value of each well-formed document; any other text is a SyntaxError.    *)
(***************************************************************************)
IdField == [name |-> "id", type |-> "INTEGER"]

FooDoc == "{\"tables\":[{\"name\":\"foo\",\"fields\":[{\"name\":\"id\",\"type\":\"INTEGER\"}]}]}"
NotArrayDoc == "{\"tables\":\"foo\",\"notes\":[{\"content\":\"n1\"}]}"
NullDoc == "null"
NullItemDoc ==
    "{\"tables\":[null,{\"name\":\"b\",\"fields\":[{\"name\":\"id\",\"type\":\"INTEGER\"}]}]}"
NoFieldsDoc ==
    "{\"tables\":[{\"name\":\"a\"},{\"name\":\"b\",\"fields\":[{\"name\":\"id\",\"type\":\"INTEGER\"}]}]}"
RelDoc ==
    "{\"tables\":[{\"name\":\"posts\",\"fields\":[{\"name\":\"id\",\"type\":\"INTEGER\",\"primaryKey\":true},"
    \o "{\"name\":\"user_id\",\"type\":\"INTEGER\"}]}],"
    \o "\"relationships\":[{\"fromTable\":\"posts\",\"toTable\":\"users\",\"fromField\":\"user_id\",\"toField\":\"id\"},"
    \o "{\"fromTable\":\"posts\",\"toTable\":\"ghost\",\"fromField\":\"user_id\",\"toField\":\"id\"},"
    \o "{\"fromTable\":\"posts\",\"toTable\":\"posts\",\"fromField\":\"nope\",\"toField\":\"id\"}]}"
NullRelDoc ==
    "{\"relationships\":[{\"fromTable\":\"users\",\"toTable\":\"ghost\"},null,"
    \o "{\"fromTable\":\"users\",\"toTable\":\"users\"}]}"
\* a table without a name and a table with a field without a type
UnnamedDoc ==
    "{\"tables\":[{\"fields\":[{\"name\":\"id\",\"type\":\"INTEGER\"}]},"
    \o "{\"name\":\"b\",\"fields\":[{\"name\":\"id\"}]}]}"
\* one relationship of the table users with itself
SelfRelDoc ==
    "{\"relationships\":[{\"fromTable\":\"users\",\"toTable\":\"users\",\"fromField\":\"id\","
    \o "\"toField\":\"id\"}]}"
\* a table without a primary key and a table without fields, each with a
\* relationship to users
FieldsDoc ==
    "{\"tables\":[{\"name\":\"logs\",\"fields\":[{\"name\":\"at\",\"type\":\"DATE\"},"
    \o "{\"name\":\"msg\",\"type\":\"TEXT\"}]},{\"name\":\"empty\",\"fields\":[]}],"
    \o "\"relationships\":[{\"fromTable\":\"logs\",\"toTable\":\"users\",\"fromField\":\"nope\","
    \o "\"toField\":\"id\"},{\"fromTable\":\"empty\",\"toTable\":\"users\"}]}"
\* a note with a position on the y axis
NotePositionDoc == "{\"notes\":[{\"content\":\"n1\",\"position\":{\"x\":0,\"y\":40}}]}"
\* a note with a position off both axes
NoteAwayDoc == "{\"notes\":[{\"content\":\"n1\",\"position\":{\"x\":30,\"y\":40}}]}"
\* a table and a note without content
NoContentDoc ==
    "{\"tables\":[{\"name\":\"foo\",\"fields\":[{\"name\":\"id\",\"type\":\"INTEGER\"}]}],"
    \o "\"notes\":[{\"position\":{\"x\":30,\"y\":40}}]}"
\* a block that is not JSON
MalformedDoc == "{bad"

JsonDocuments == <<
    <<FooDoc, [tables |-> Arr(<<[name |-> "foo", fields |-> <<IdField>>]>>)]>>,
    <<NotArrayDoc, [tables |-> NotArr, notes |-> Arr(<<[content |-> "n1"]>>)]>>,
    <<NullDoc, Null>>,
    <<NullItemDoc, [tables |-> Arr(<<Null, [name |-> "b", fields |-> <<IdField>>]>>)]>>,
    <<NoFieldsDoc, [tables |-> Arr(<<[name |-> "a"], [name |-> "b", fields |-> <<IdField>>]>>)]>>,
    <<RelDoc,
      [tables |-> Arr(<<[name |-> "posts",
                         fields |-> <<[name |-> "id", type |-> "INTEGER", primaryKey |-> TRUE],
                                      [name |-> "user_id", type |-> "INTEGER"]>>]>>),
       relationships |-> Arr(<<
           [fromTable |-> "posts", toTable |-> "users", fromField |-> "user_id", toField |-> "id"],
           [fromTable |-> "posts", toTable |-> "ghost", fromField |-> "user_id", toField |-> "id"],
           [fromTable |-> "posts", toTable |-> "posts", fromField |-> "nope", toField |-> "id"]>>)]>>,
    <<NullRelDoc,
      [relationships |-> Arr(<<[fromTable |-> "users", toTable |-> "ghost"], Null,
                               [fromTable |-> "users", toTable |-> "users"]>>)]>>,
    <<UnnamedDoc,
      [tables |-> Arr(<<[fields |-> <<IdField>>],
                        [name |-> "b", fields |-> <<[name |-> "id"]>>]>>)]>>,
    <<SelfRelDoc,
      [relationships |-> Arr(<<[fromTable |-> "users", toTable |-> "users",
                                fromField |-> "id", toField |-> "id"]>>)]>>,
    <<FieldsDoc,
      [tables |-> Arr(<<[name |-> "logs",
                         fields |-> <<[name |-> "at", type |-> "DATE"],
                                      [name |-> "msg", type |-> "TEXT"]>>],
                        [name |-> "empty", fields |-> <<>>]>>),
       relationships |-> Arr(<<
           [fromTable |-> "logs", toTable |-> "users", fromField |-> "nope", toField |-> "id"],
           [fromTable |-> "empty", toTable |-> "users"]>>)]>>,
    <<NotePositionDoc,
      [notes |-> Arr(<<[content |-> "n1", position |-> [x |-> 0, y |-> 40]]>>)]>>,
    <<NoteAwayDoc,
      [notes |-> Arr(<<[content |-> "n1", position |-> [x |-> 30, y |-> 40]]>>)]>>,
    <<NoContentDoc,
      [tables |-> Arr(<<[name |-> "foo", fields |-> <<IdField>>]>>),
       notes |-> Arr(<<[position |-> [x |-> 30, y |-> 40]]>>)]>>
>>

JSONParse(text) ==
    IF \E k \in DOMAIN JsonDocuments : JsonDocuments[k][1] = text
    THEN [ok |-> TRUE,
          value |-> JsonDocuments[CHOOSE k \in DOMAIN JsonDocuments : JsonDocuments[k][1] = text][2]]
    ELSE [ok |-> FALSE]

(***************************************************************************)
(* parseAIResponse (aiHelpers.js)                                          *)
(***************************************************************************)
Ident == Cat(<<Cls("ident"), Rep("word", 0, TRUE)>>)
\* an identifier of three characters or more
Ident3 == Cat(<<Cls("ident"), Rep("word", 2, TRUE)>>)
DotStar == Rep("dot", 0, TRUE)
Spaces == Rep("space", 0, TRUE)

\* The code fence.  A TLA+ string cannot hold a backquote, so the backquote of
\* the responses and of the patterns is written as an apostrophe throughout.
Fence == "'''"

\* a block pattern that runs on to the last closing fence
jsonBlockGreedy == Cat(<<Lit(Fence \o "json\n"), Rep("any", 0, TRUE), Lit("\n" \o Fence)>>)

\* the fenced JSON and SQL blocks (lazy up to the first closing fence), and
\* the patterns that strip the fences
jsonBlockPattern == Cat(<<Lit(Fence \o "json\n"), Rep("any", 0, FALSE), Lit("\n" \o Fence)>>)
jsonOpenFence == Lit(Fence \o "json\n")
sqlBlockPattern == Cat(<<Lit(Fence \o "sql\n"), Rep("any", 0, FALSE), Lit("\n" \o Fence)>>)
sqlOpenFence == Lit(Fence \o "sql\n")
closeFence == Lit("\n" \o Fence)

tablePatterns == <<
    Cat(<<Alt(<<Lit("CREATE TABLE"), Lit("Add table"), Lit("Table:"),
                Cat(<<Lit("suggest"), DotStar, Lit("table")>>),
                Cat(<<Lit("recommend"), DotStar, Lit("table")>>),
                Cat(<<Lit("consider"), DotStar, Lit("table")>>)>>),
          Spaces, Ident>>),
    Cat(<<Alt(<<Lit("missing"), Lit("add"), Lit("create"), Lit("suggest")>>),
          DotStar, Lit("table"), Rep("space", 1, TRUE), Ident>>),
    Cat(<<Alt(<<Lit("you should"), Lit("I recommend"), Lit("consider adding")>>),
          DotStar, Lit("table"), Rep("space", 1, TRUE), Ident>>)
>>

\* the pattern parseAIResponse removes from a table match to get the name
tableNamePrefix ==
    Cat(<<Alt(<<Lit("CREATE TABLE"), Lit("Add table"), Lit("Table:"),
                Cat(<<Lit("suggest"), DotStar, Lit("table")>>),
                Cat(<<Lit("recommend"), DotStar, Lit("table")>>),
                Cat(<<Lit("consider"), DotStar, Lit("table")>>),
                Lit("missing"), Lit("add"), Lit("create"), Lit("suggest"),
                Lit("you should"), Lit("I recommend"), Lit("consider adding")>>),
          DotStar, Lit("table"), Spaces>>)

relSeparator == Alt(<<Lit("to"), Lit("->"), Lit("references"), Lit("with")>>)

relPatterns == <<
    Cat(<<Alt(<<Lit("relationship"), Lit("foreign key"), Lit("FK"), Lit("connection"),
                Lit("link")>>),
          Spaces, Ident3, Spaces, relSeparator, Spaces, Ident3>>),
    Cat(<<Alt(<<Lit("suggest"), Lit("recommend"), Lit("consider")>>),
          DotStar, Lit("relationship"), DotStar, Ident3, Spaces, relSeparator, Spaces, Ident3>>),
    Cat(<<Alt(<<Lit("you should"), Lit("I recommend"), Lit("consider adding")>>),
          DotStar, Lit("relationship"), DotStar, Ident3, Spaces, relSeparator, Spaces, Ident3>>)
>>

\* a split pattern that leaves the arrow out
relSplitWithoutArrow ==
    Cat(<<Spaces, Alt(<<Lit("to"), Lit("references"), Lit("with")>>), Spaces>>)

\* the separator, with the white space around it, a relationship match is split on
relSplitPattern == Cat(<<Spaces, relSeparator, Spaces>>)

\* the pattern parseAIResponse removes from the first part to get fromTable
relFromPrefix ==
    Cat(<<Alt(<<Lit("relationship"), Lit("foreign key"), Lit("FK"), Lit("connection"),
                Lit("link"), Lit("suggest"), Lit("recommend"), Lit("consider"),
                Lit("you should"), Lit("I recommend"), Lit("consider adding")>>),
          DotStar, Lit("relationship"), Spaces>>)

excludeWords == {"the", "and", "or", "but", "for", "nor", "yet", "so", "a", "an", "in", "on",
                 "at", "to", "of", "with", "by", "linked", "connected", "related"}

NoteVerb == Alt(<<Lit("add"), Lit("create"), Lit("insert"), Lit("include")>>)
NoteAbout == Alt(<<Lit("about"), Lit("for"), Lit("regarding")>>)

notePatterns == <<
    Cat(<<NoteVerb, DotStar, Lit("note"), DotStar,
          Alt(<<Lit("about"), Lit("for"), Lit("regarding"), Lit("documenting")>>),
          Spaces, Rep("dot", 1, TRUE)>>),
    Cat(<<NoteVerb, DotStar, Lit("document"), DotStar, NoteAbout, Spaces, Rep("dot", 1, TRUE)>>),
    Cat(<<NoteVerb, DotStar, Lit("spec"), DotStar, NoteAbout, Spaces, Rep("dot", 1, TRUE)>>),
    Cat(<<NoteVerb, DotStar, Lit("specification"), DotStar, NoteAbout, Spaces,
          Rep("dot", 1, TRUE)>>)
>>

\* the pattern parseAIResponse removes from a note match to get the content
noteContentPrefix ==
    Cat(<<NoteVerb, DotStar,
          Alt(<<Lit("note"), Lit("document"), Lit("spec"), Lit("specification")>>),
          DotStar, NoteAbout, Spaces>>)

\* the schema every heuristic table suggestion gets
defaultFields == <<[name |-> "id", type |-> "INTEGER", primaryKey |-> TRUE],
                   [name |-> "created_at", type |-> "TIMESTAMP"],
                   [name |-> "updated_at", type |-> "TIMESTAMP"]>>

emptySuggestions ==
    [tables |-> <<>>, relationships |-> <<>>, notes |-> <<>>, optimizations |-> <<>>,
     sqlQueries |-> <<>>, general |-> <<>>]

\* the items of the array obj[key], or none when it is not an array
arrayOf(obj, key) == IF IsArrayProp(obj, key) THEN obj[key].items ELSE <<>>

\* what a parsed block adds to tables, relationships and notes; a block that
\* does not parse, or whose value is null, throws inside the try and adds
\* nothing
jsonArrays(parsedJson) ==
    IF ~parsedJson.ok \/ IsNull(parsedJson.value)
    THEN [tables |-> <<>>, relationships |-> <<>>, notes |-> <<>>]
    ELSE [tables |-> arrayOf(parsedJson.value, "tables"),
          relationships |-> arrayOf(parsedJson.value, "relationships"),
          notes |-> arrayOf(parsedJson.value, "notes")]

\* one fenced JSON block
jsonBlock(match) ==
    jsonArrays(JSONParse(ReplaceFirst(closeFence, FALSE,
                                      ReplaceFirst(jsonOpenFence, FALSE, match))))

jsonBlocks(jsonMatches) == [k \in DOMAIN jsonMatches |-> jsonBlock(jsonMatches[k])]

pushAll(perBlock) ==
    [tables |-> Flatten([k \in DOMAIN perBlock |-> perBlock[k].tables]),
     relationships |-> Flatten([k \in DOMAIN perBlock |-> perBlock[k].relationships]),
     notes |-> Flatten([k \in DOMAIN perBlock |-> perBlock[k].notes])]

\* stage 1: the fenced JSON blocks, in order of appearance
jsonStage(response) == pushAll(jsonBlocks(MatchAll(jsonBlockPattern, FALSE, response)))

stripSqlFences(sqlMatches) ==
    [k \in DOMAIN sqlMatches |->
        ReplaceFirst(closeFence, FALSE, ReplaceFirst(sqlOpenFence, FALSE, sqlMatches[k]))]

\* stage 2: the fenced SQL blocks, stripped of their fences
sqlStage(response) == stripSqlFences(MatchAll(sqlBlockPattern, FALSE, response))

tableNamed(tableName) ==
    [name |-> tableName, fields |-> defaultFields,
     comment |-> "AI-suggested table: " \o tableName]

basicTable(match) == tableNamed(trim(ReplaceFirst(tableNamePrefix, TRUE, match)))

basicTables(matches) == [k \in DOMAIN matches |-> basicTable(matches[k])]

\* stage 3: the table-name heuristics, pattern by pattern
tableStage(response) ==
    Flatten([p \in DOMAIN tablePatterns |->
                basicTables(MatchAll(tablePatterns[p], TRUE, response))])

\* the relationship of a match between two names: <<>> when it is filtered out
relBetween(fromTable, toTable) ==
    IF toLowerCase(fromTable) \in excludeWords \/ toLowerCase(toTable) \in excludeWords
    THEN <<>>
    ELSE IF \/ Len(fromTable) < 2 \/ Len(toTable) < 2
            \/ ~Test(Cls("alpha"), FALSE, fromTable) \/ ~Test(Cls("alpha"), FALSE, toTable)
    THEN <<>>
    ELSE <<[fromTable |-> fromTable, toTable |-> toTable,
            fromField |-> toLowerCase(fromTable) \o "_id", toField |-> "id",
            cardinality |-> "one_to_many", constraint |-> "No action"]>>

\* the relationship of a match split in parts; it throws when parts[1] is
\* undefined (toTable.toLowerCase())
relOfParts(parts) ==
    IF Len(parts) < 2 THEN [throws |-> TRUE, rels |-> <<>>]
    ELSE [throws |-> FALSE,
          rels |-> relBetween(trim(ReplaceFirst(relFromPrefix, TRUE, parts[1])),
                              trim(parts[2]))]

basicRel(match) == relOfParts(Split(relSplitPattern, TRUE, match))

basicRels(matches) == [k \in DOMAIN matches |-> basicRel(matches[k])]

relsOf(each) ==
    [throws |-> \E k \in DOMAIN each : each[k].throws,
     rels |-> Flatten([k \in DOMAIN each |-> each[k].rels])]

\* stage 4: the relationship heuristics
relStage(response) ==
    relsOf(Flatten([p \in DOMAIN relPatterns |->
                      basicRels(MatchAll(relPatterns[p], TRUE, response))]))

noteSuggestion(match) ==
    [content |-> trim(ReplaceFirst(noteContentPrefix, TRUE, match)),
     position |-> [x |-> 100, y |-> 100]]

noteSuggestions(matches) == [k \in DOMAIN matches |-> noteSuggestion(matches[k])]

\* stage 5: the note heuristics
noteStage(response) ==
    Flatten([p \in DOMAIN notePatterns |->
                noteSuggestions(MatchAll(notePatterns[p], TRUE, response))])


commonTableNames == <<
    "users", "user", "customers", "customer", "orders", "order", "products", "product",
    "categories", "category", "posts", "post", "comments", "comment", "tags", "tag",
    "sessions", "session", "logs", "log", "audit", "audits", "settings", "setting",
    "profiles", "profile", "addresses", "address", "payments", "payment",
    "inventory", "stock", "suppliers", "supplier", "employees", "employee">>

relationshipKeywords == <<
    "belongs to", "has many", "has one", "many to many", "one to many", "one to one",
    "foreign key", "reference", "relates to", "connected to", "linked to">>

noteKeywords == <<
    "spec", "specification", "document", "documentation", "note", "notes",
    "comment", "comments", "description", "explanation", "details">>

\* the width of the text inspected before and after a relationship keyword,
\* and before and after a note keyword
RelWindow == 100
NoteBefore == 50
NoteAfter == 100
\* a synthesized note is kept when its content is longer than this
MinNoteLength == 20

\* the elements xs[k] for which keep[k], in order
SelectSeqBy(xs, keep) == Flatten([k \in DOMAIN xs |-> IF keep[k] THEN <<xs[k]>> ELSE <<>>])

analysisTables(names) ==
    [k \in DOMAIN names |->
        [name |-> names[k], fields |-> defaultFields,
         comment |-> "AI-suggested table based on analysis: " \o names[k]]]

\* the common table names that occur in the response as whole words
generalTables(response) ==
    analysisTables(SelectSeqBy(commonTableNames,
        [k \in DOMAIN commonTableNames |->
            Test(Cat(<<WordBoundary, Lit(commonTableNames[k]), WordBoundary>>),
                 TRUE, response)]))

placeholderRels(names) ==
    [k \in DOMAIN names |->
        [fromTable |-> "table1", toTable |-> names[k], fromField |-> "table1_id",
         toField |-> "id", cardinality |-> "one_to_many", constraint |-> "No action"]]

\* a placeholder relationship to every common table name in the text before
\* or after a keyword
relsNear(beforeContext, afterContext) ==
    placeholderRels(SelectSeqBy(commonTableNames,
        [k \in DOMAIN commonTableNames |->
            \/ includes(toLowerCase(beforeContext), commonTableNames[k])
            \/ includes(toLowerCase(afterContext), commonTableNames[k])]))

relsAround(response, keywordIndex) ==
    relsNear(substring(response, Max(0, keywordIndex - RelWindow), keywordIndex),
             substring(response, keywordIndex, Min(Len(response), keywordIndex + RelWindow)))

\* for one relationship keyword: the relationships of the window around its
\* first occurrence
generalRelsFor(response, keyword) ==
    IF ~includes(toLowerCase(response), keyword) THEN <<>>
    ELSE relsAround(response, indexOf(toLowerCase(response), keyword) - 1)

noteOf(noteContent) ==
    IF Len(noteContent) > MinNoteLength
    THEN <<[content |-> noteContent, position |-> [x |-> 100, y |-> 100]]>>
    ELSE <<>>

noteAround(response, keywordIndex) ==
    noteOf(trim("Documentation: "
                \o trim(substring(response, Max(0, keywordIndex - NoteBefore), keywordIndex))
                \o " "
                \o trim(substring(response, keywordIndex,
                                  Min(Len(response), keywordIndex + NoteAfter)))))

\* for one note keyword: the note built from the window around its first
\* occurrence, kept when it is long enough
generalNoteFor(response, keyword) ==
    IF ~includes(toLowerCase(response), keyword) THEN <<>>
    ELSE noteAround(response, indexOf(toLowerCase(response), keyword) - 1)

extractGeneralSuggestions(response) ==
    [tables |-> generalTables(response),
     relationships |-> Flatten([k \in DOMAIN relationshipKeywords |->
                                  generalRelsFor(response, relationshipKeywords[k])]),
     notes |-> Flatten([k \in DOMAIN noteKeywords |->
                          generalNoteFor(response, noteKeywords[k])])]

\* what parseAIResponse takes from the general suggestions: the tables and the
\* relationships
fallbackOf(generalSuggestions) ==
    [tables |-> generalSuggestions.tables,
     relationships |-> generalSuggestions.relationships,
     notes |-> <<>>]

generalStage(response) == fallbackOf(extractGeneralSuggestions(response))

\* the fallback: the general suggestions stand in when the stages found no
\* table, relationship or note
withFallback(specific, general) ==
    IF specific.tables = <<>> /\ specific.relationships = <<>> /\ specific.notes = <<>>
    THEN [specific EXCEPT !.tables = general.tables,
                          !.relationships = general.relationships,
                          !.notes = general.notes]
    ELSE specific

stagesResult(json, sqlQueries, heuristicTables, rel, heuristicNotes, general) ==
    IF rel.throws THEN [threw |-> TRUE, value |-> emptySuggestions]
    ELSE [threw |-> FALSE,
          value |-> withFallback([emptySuggestions EXCEPT
                                     !.tables = json.tables \o heuristicTables,
                                     !.relationships = json.relationships \o rel.rels,
                                     !.notes = json.notes \o heuristicNotes,
                                     !.sqlQueries = sqlQueries],
                                 general)]

\* parseAIResponse: threw tells whether the call raised; value is the object
\* it returns otherwise
parseAIResponse(response) ==
    stagesResult(jsonStage(response), sqlStage(response), tableStage(response),
                 relStage(response), noteStage(response), generalStage(response))


(***************************************************************************)
(* The diagram and its mutation interface (useDiagram, useNotes,           *)
(* useUndoRedo).  The providers are not among the sources; the operations  *)
(* are those of the specification's interface section: each call makes one *)
(* change of the diagram, and records it in the history unless the caller  *)
(* asks to skip the history.                                               *)
(***************************************************************************)
undoEntry(element) == [action |-> "ADD", element |-> element]

recordHistory(d, element, skipHistory) ==
    IF skipHistory THEN d
    ELSE [d EXCEPT !.undoStack = Append(@, undoEntry(element)), !.redoStack = <<>>]

addTable(d, table, skipHistory) ==
    recordHistory([d EXCEPT !.tables = Append(@, table)], "TABLE", skipHistory)

addRelationship(d, relationship, skipHistory) ==
    recordHistory([d EXCEPT !.relationships = Append(@, relationship)], "RELATIONSHIP",
                  skipHistory)

addNote(d, note, skipHistory) ==
    recordHistory([d EXCEPT !.notes = Append(@, note)], "NOTE", skipHistory)

\* the identifiers in use in a diagram
IdsOf(d) ==
    {d.tables[k].id : k \in DOMAIN d.tables}
    \cup UNION {{d.tables[k].fields[j].id : j \in DOMAIN d.tables[k].fields} : k \in DOMAIN d.tables}
    \cup {d.relationships[k].id : k \in DOMAIN d.relationships}
    \cup {d.notes[k].id : k \in DOMAIN d.notes}

\* nanoid(): an identifier no object has yet (identifiers are numbers here,
\* and the fresh one is the next number after those in use)
nanoid(d) == 1 + Greatest(IdsOf(d) \cup {0})

(***************************************************************************)
(* AIChatPanel.handleApplySuggestion.  The batch is folded over a record   *)
(* b of the handler's locals: d the diagram as the add calls made so far   *)
(* leave it, addedTables, appliedCount, errors, aborted (an exception      *)
(* reached the outer catch) and log, one entry per item reached.           *)
(***************************************************************************)
\* the text of a TypeError (V8's wording)
ErrorMessage == "Cannot read properties of undefined"

\* Array.prototype.join
RECURSIVE join(_, _)
join(xs, sep) ==
    IF xs = <<>> THEN ""
    ELSE IF Len(xs) = 1 THEN xs[1]
    ELSE xs[1] \o sep \o join(Tail(xs), sep)

\* Array.prototype.find by a predicate given as the matching flags: the first
\* index k with hit[k], or 0 where find returns undefined
FirstIndex(hit) ==
    IF \E k \in DOMAIN hit : hit[k] THEN Least({k \in DOMAIN hit : hit[k]}) ELSE 0

newField(field, id) ==
    [id |-> id, name |-> Prop(field, "name"), type |-> Prop(field, "type"),
     default |-> PropOr(field, "defaultValue", ""), check |-> "",
     primary |-> PropOr(field, "primaryKey", FALSE), unique |-> PropOr(field, "unique", FALSE),
     notNull |-> PropOr(field, "notNull", FALSE), increment |-> PropOr(field, "increment", FALSE),
     comment |-> PropOr(field, "comment", "")]

\* a lookup that never finds the table
noExistingTable(rendered, tableData) == FALSE

\* tables.find(t => t.name === tableData.name) finds a table; rendered is the
\* table list of the render the handler belongs to
existingTable(rendered, tableData) ==
    \E k \in DOMAIN rendered : rendered[k].name = Prop(tableData, "name")

\* one iteration of the table loop
applyTable(b, rendered, tableData) ==
    IF IsNull(tableData)
    THEN \* tableData.name throws in the try block and again in its catch
         [b EXCEPT !.aborted = TRUE, !.log = Append(@, "table:abort")]
    ELSE IF existingTable(rendered, tableData)
    THEN [b EXCEPT !.log = Append(@, "table:exists")]
    ELSE IF \/ ~Has(tableData, "fields")
            \/ \E k \in DOMAIN tableData.fields : IsNull(tableData.fields[k])
    THEN [b EXCEPT !.errors = Append(@, "Failed to add table " \o Str(Prop(tableData, "name"))
                                        \o ": " \o ErrorMessage),
                   !.log = Append(@, "table:error")]
    ELSE LET tableId == nanoid(b.d)
             newTable ==
                 [id |-> tableId, name |-> Prop(tableData, "name"),
                  x |-> 100 + (b.appliedCount * 300), y |-> 100, locked |-> FALSE,
                  fields |-> [k \in DOMAIN tableData.fields |->
                                newField(tableData.fields[k], tableId + k)],
                  comment |-> PropOr(tableData, "comment", ""), indices |-> <<>>,
                  color |-> "#ffffff"]
         IN  [b EXCEPT !.d = addTable(@, newTable, TRUE),
                       !.addedTables = Append(@, newTable),
                       !.appliedCount = @ + 1,
                       !.log = Append(@, "table:added")]

\* the primary field looked for before the named one
relationshipFieldPrimaryFirst(fields, name) ==
    LET named == FirstIndex([k \in DOMAIN fields |-> fields[k].name = name])
        primary == FirstIndex([k \in DOMAIN fields |-> fields[k].primary])
    IN  IF primary # 0 THEN primary ELSE IF named # 0 THEN named
        ELSE IF fields # <<>> THEN 1 ELSE 0

\* the field of a table a relationship end is attached to: the one of the
\* given name, else the primary one, else the first; 0 when there is none
relationshipField(fields, name) ==
    LET named == FirstIndex([k \in DOMAIN fields |-> fields[k].name = name])
        primary == FirstIndex([k \in DOMAIN fields |-> fields[k].primary])
    IN  IF named # 0 THEN named ELSE IF primary # 0 THEN primary
        ELSE IF fields # <<>> THEN 1 ELSE 0

\* the relationship loop with the two field ids of the new relationship crossed
applyRelationshipCrossed(b, rendered, relData) ==
    IF IsNull(relData)
    THEN \* relData.fromTable throws in the try block and again in its catch
         [b EXCEPT !.aborted = TRUE, !.log = Append(@, "rel:abort")]
    ELSE LET allTables == rendered \o b.addedTables
             source == FirstIndex([k \in DOMAIN allTables |->
                                      allTables[k].name = Prop(relData, "fromTable")])
             target == FirstIndex([k \in DOMAIN allTables |->
                                      allTables[k].name = Prop(relData, "toTable")])
             arrow == Str(Prop(relData, "fromTable")) \o " → " \o Str(Prop(relData, "toTable"))
         IN  IF source = 0 \/ target = 0
             THEN [b EXCEPT !.errors = Append(@, "Could not find tables for relationship: "
                                                 \o arrow),
                            !.log = Append(@, "rel:no-table")]
             ELSE LET sourceTable == allTables[source]
                      targetTable == allTables[target]
                      sourceField == relationshipField(sourceTable.fields,
                                                       Prop(relData, "fromField"))
                      targetField == relationshipField(targetTable.fields,
                                                       Prop(relData, "toField"))
                      relationshipId == nanoid(b.d)
                      newRelationship ==
                          [id |-> relationshipId,
                           name |-> "rel_" \o ToString(relationshipId),
                           startTableId |-> sourceTable.id, endTableId |-> targetTable.id,
                           startFieldId |-> targetTable.fields[targetField].id,
                           endFieldId |-> sourceTable.fields[sourceField].id,
                           cardinality |-> PropOr(relData, "cardinality", "one_to_many"),
                           constraint |-> PropOr(relData, "constraint", "No action"),
                           color |-> "#000000"]
                  IN  IF sourceField = 0 \/ targetField = 0
                      THEN [b EXCEPT !.errors =
                                        Append(@, "Could not find appropriate fields for "
                                                  \o "relationship: " \o arrow),
                                     !.log = Append(@, "rel:no-field")]
                      ELSE [b EXCEPT !.d = addRelationship(@, newRelationship, TRUE),
                                     !.appliedCount = @ + 1,
                                     !.log = Append(@, "rel:added")]

\* one iteration of the relationship loop
applyRelationship(b, rendered, relData) ==
    IF IsNull(relData)
    THEN \* relData.fromTable throws in the try block and again in its catch
         [b EXCEPT !.aborted = TRUE, !.log = Append(@, "rel:abort")]
    ELSE LET allTables == rendered \o b.addedTables
             source == FirstIndex([k \in DOMAIN allTables |->
                                      allTables[k].name = Prop(relData, "fromTable")])
             target == FirstIndex([k \in DOMAIN allTables |->
                                      allTables[k].name = Prop(relData, "toTable")])
             arrow == Str(Prop(relData, "fromTable")) \o " → " \o Str(Prop(relData, "toTable"))
         IN  IF source = 0 \/ target = 0
             THEN [b EXCEPT !.errors = Append(@, "Could not find tables for relationship: "
                                                 \o arrow),
                            !.log = Append(@, "rel:no-table")]
             ELSE LET sourceTable == allTables[source]
                      targetTable == allTables[target]
                      sourceField == relationshipField(sourceTable.fields,
                                                       Prop(relData, "fromField"))
                      targetField == relationshipField(targetTable.fields,
                                                       Prop(relData, "toField"))
                      relationshipId == nanoid(b.d)
                      newRelationship ==
                          [id |-> relationshipId,
                           name |-> "rel_" \o ToString(relationshipId),
                           startTableId |-> sourceTable.id, endTableId |-> targetTable.id,
                           startFieldId |-> sourceTable.fields[sourceField].id,
                           endFieldId |-> targetTable.fields[targetField].id,
                           cardinality |-> PropOr(relData, "cardinality", "one_to_many"),
                           constraint |-> PropOr(relData, "constraint", "No action"),
                           color |-> "#000000"]
                  IN  IF sourceField = 0 \/ targetField = 0
                      THEN [b EXCEPT !.errors =
                                        Append(@, "Could not find appropriate fields for "
                                                  \o "relationship: " \o arrow),
                                     !.log = Append(@, "rel:no-field")]
                      ELSE [b EXCEPT !.d = addRelationship(@, newRelationship, TRUE),
                                     !.appliedCount = @ + 1,
                                     !.log = Append(@, "rel:added")]

\* noteData.position?.x || fallback
coordinate(noteData, axis, fallback) ==
    IF Has(noteData, "position") /\ ~IsNull(noteData.position)
       /\ Has(noteData.position, axis) /\ noteData.position[axis] # 0
    THEN noteData.position[axis]
    ELSE fallback

\* one iteration of the note loop
applyNote(b, noteData) ==
    IF IsNull(noteData)
    THEN [b EXCEPT !.errors = Append(@, "Failed to add note: " \o ErrorMessage),
                   !.log = Append(@, "note:error")]
    ELSE LET newNote ==
                 [id |-> nanoid(b.d), content |-> Prop(noteData, "content"),
                  x |-> coordinate(noteData, "x", 100 + (b.appliedCount * 200)),
                  y |-> coordinate(noteData, "y", 100 + (b.appliedCount * 100)),
                  width |-> 200, height |-> 100, color |-> "#ffffcc"]
         IN  IF ~Has(noteData, "content")
             THEN \* newNote.content.substring throws after addNote has run
                  [b EXCEPT !.d = addNote(@, newNote, TRUE),
                            !.errors = Append(@, "Failed to add note: " \o ErrorMessage),
                            !.log = Append(@, "note:added-then-error")]
             ELSE [b EXCEPT !.d = addNote(@, newNote, TRUE),
                            !.appliedCount = @ + 1,
                            !.log = Append(@, "note:added")]

RECURSIVE tableLoop(_, _, _, _)
tableLoop(b, rendered, items, k) ==
    IF k > Len(items) \/ b.aborted THEN b
    ELSE tableLoop(applyTable(b, rendered, items[k]), rendered, items, k + 1)

RECURSIVE relationshipLoop(_, _, _, _)
relationshipLoop(b, rendered, items, k) ==
    IF k > Len(items) \/ b.aborted THEN b
    ELSE relationshipLoop(applyRelationship(b, rendered, items[k]), rendered, items, k + 1)

RECURSIVE noteLoop(_, _, _)
noteLoop(b, items, k) ==
    IF k > Len(items) \/ b.aborted THEN b
    ELSE noteLoop(applyNote(b, items[k]), items, k + 1)

aiMessage(content) == [role |-> "ai", content |-> content]

generalAdviceWords ==
    {"suggest", "recommend", "consider", "improve", "add", "missing", "note", "document", "spec"}

\* the bullet that opens each line of the list is written as an asterisk
generalAdviceMessage ==
    "I found general advice in the response, but no specific suggestions that can be "
    \o "automatically applied. Try asking more specifically:\n\n"
    \o "* 'Suggest specific tables to add to improve this blog design'\n"
    \o "* 'What tables are missing for user authentication?'\n"
    \o "* 'Recommend specific relationships between blog_posts and other tables'\n"
    \o "* 'Add a user profile system with specific tables'\n"
    \o "* 'Add a spec document about the database design'\n"
    \o "* 'Create a note explaining the schema structure'"

noSuggestionsMessage ==
    "No actionable suggestions found in the response. For design reviews, try asking for "
    \o "specific improvements like 'suggest specific tables to add' or 'recommend specific "
    \o "relationships'."

applyFailedError == "Failed to apply suggestion. Please try again."

\* the two reports of a batch (the pictographs that open them are left out)
successMessage(appliedCount) ==
    "Successfully applied " \o ToString(appliedCount) \o " suggestions to the diagram!"

errorReport(errors) == "Some suggestions could not be applied:\n" \o join(errors, "\n")

\* the messages the handler appends once the three loops are over
resultMessages(b, content) ==
    (IF b.appliedCount > 0 THEN <<aiMessage(successMessage(b.appliedCount))>> ELSE <<>>)
    \o (IF b.errors # <<>> THEN <<aiMessage(errorReport(b.errors))>> ELSE <<>>)
    \o (IF b.appliedCount = 0 /\ b.errors = <<>>
        THEN <<aiMessage(IF \E w \in generalAdviceWords : includes(toLowerCase(content), w)
                         THEN generalAdviceMessage ELSE noSuggestionsMessage)>>
        ELSE <<>>)

startOfBatch(d, threw) ==
    [d |-> d, addedTables |-> <<>>, appliedCount |-> 0, errors |-> <<>>,
     aborted |-> threw, log |-> <<>>]

\* what the handler leaves: its locals b, the suggestions it worked on and the
\* messages it appends
endOfBatch(b, suggestions, content) ==
    [b |-> b, suggestions |-> suggestions,
     messages |-> IF b.aborted THEN <<>> ELSE resultMessages(b, content)]

\* the three loops over the parsed response
applySuggestions(parsedResponse, content, d) ==
    endOfBatch(
        noteLoop(
            relationshipLoop(
                tableLoop(startOfBatch(d, parsedResponse.threw),
                          d.tables, parsedResponse.value.tables, 1),
                d.tables, parsedResponse.value.relationships, 1),
            parsedResponse.value.notes, 1),
        parsedResponse.value, content)

(***************************************************************************)
(* Sample response texts                                                   *)
(***************************************************************************)
\* a JSON block as a response carries it
Fenced(body) == Fence \o "json\n" \o body \o "\n" \o Fence

\* a reply whose only suggestions are those of one JSON block (the words
\* before the block are what makes the chat offer to apply it)
jsonReply(body) == "FOREIGN KEY:\n" \o Fenced(body)

\* replies of the model that the chat offers to apply
ApplyTexts ==
    {"CREATE TABLE orders", "CREATE TABLE users", "FOREIGN KEY orders references users",
     jsonReply(NullItemDoc), jsonReply(NoFieldsDoc), jsonReply(RelDoc),
     jsonReply(NullRelDoc)}

\* replies of the model to a request
RemoteTexts == {"Looks good.", "CREATE TABLE orders", jsonReply(RelDoc)}

\* a diagram of one table, as the editor makes it
usersTable ==
    [id |-> 1, name |-> "users", x |-> 0, y |-> 0, locked |-> FALSE,
     fields |-> <<[id |-> 2, name |-> "id", type |-> "INTEGER", default |-> "", check |-> "",
                   primary |-> TRUE, unique |-> TRUE, notNull |-> TRUE, increment |-> TRUE,
                   comment |-> ""]>>,
     comment |-> "", indices |-> <<>>, color |-> "#175e7a"]

\* the editor as the panel finds it: a diagram whose only table the user has
\* just undone, and a diagram of one table with nothing to redo
SampleDiagrams ==
    {[tables |-> <<>>, relationships |-> <<>>, notes |-> <<>>, undoStack |-> <<>>,
      redoStack |-> <<undoEntry("TABLE")>>],
     [tables |-> <<usersTable>>, relationships |-> <<>>, notes |-> <<>>, undoStack |-> <<>>,
      redoStack |-> <<>>]}

\* the error reports of applying the given texts to the sample diagrams, which
\* the chat may offer to apply in their turn
reportsOf(texts) ==
    {errorReport(applySuggestions(parseAIResponse(c), c, d).b.errors) :
        c \in texts, d \in SampleDiagrams}

sampleTexts ==
    ApplyTexts \cup RemoteTexts \cup reportsOf(ApplyTexts \cup RemoteTexts)
    \cup reportsOf(reportsOf(ApplyTexts \cup RemoteTexts))

\* parseAIResponse is a function of the text alone: its values on the sample
\* texts are computed once
parsedSamples == {[text |-> c, parsed |-> parseAIResponse(c)] : c \in sampleTexts}

\* the value kept for a text, or the one computed when none is kept
recall(samples, content, computed) ==
    IF \E sample \in samples : sample.text = content
    THEN (CHOOSE sample \in samples : sample.text = content).parsed
    ELSE computed

parseResponse(content) == recall(parsedSamples, content, parseAIResponse(content))

\* the handler on a response text, from diagram d with rendered tables d.tables
handleApplySuggestion(content, d) ==
    applySuggestions(parseResponse(content), content, d)

\* ChatMessage.hasActionableContent: the keywords are looked up in the
\* upper-cased content
actionKeywords ==
    {"CREATE TABLE", "ADD TABLE", "FOREIGN KEY", "suggest", "recommend", "add", "create"}

hasActionableContent(content) ==
    LET upper == toUpperCase(content)
    IN  \E keyword \in actionKeywords : includes(upper, keyword)

\* the message handleSendMessage answers with while the diagram has no table
\* (without the pictograph that opens it)
noDiagramMessage ==
    "No diagram data found. Please make sure you have tables and relationships in your "
    \o "diagram before asking for AI assistance."

\* the texts of the messages of the assistant: the sample texts, the fixed
\* messages and the reports of success
knownTexts ==
    sampleTexts
    \cup {noSuggestionsMessage, generalAdviceMessage, noDiagramMessage}
    \cup {successMessage(n) : n \in 1..(MaxTables + MaxRelationships + MaxNotes)}

\* hasActionableContent is a function of the text alone: its values on these
\* texts are computed once
actionableSamples ==
    {[text |-> c, actionable |-> hasActionableContent(c)] : c \in knownTexts}

\* ChatMessage shows the apply button of a message of the assistant whose
\* content is actionable
showsApply(message) ==
    /\ message.role = "ai"
    /\ IF message.content \in knownTexts
       THEN [text |-> message.content, actionable |-> TRUE] \in actionableSamples
       ELSE hasActionableContent(message.content)

(***************************************************************************)
(* Sample data                                                             *)
(***************************************************************************)
\* errors LiteLLMClient.sendMessage reports
RemoteErrors ==
    {"Network error: Unable to connect to LiteLLM endpoint. Please check your endpoint URL "
     \o "and internet connection."}

\* what the user types
UserInputs == {"", "   ", "review my schema"}

null == "<null>"

userMessage(content) == [role |-> "user", content |-> content]

sendFailedError == "Failed to send message. Please check your connection and try again."

(***************************************************************************)
(* Settings, the AI configuration and the browser's storage                *)
(***************************************************************************)
\* the settings the AI companion reads, and the colour mode
defaultSettings ==
    [mode |-> "light", aiEnabled |-> TRUE, aiEndpoint |-> "", aiApiKey |-> "",
     aiModel |-> "gpt-3.5-turbo"]

defaultModel == "gpt-3.5-turbo"

\* the configuration both the provider and the settings form derive from the
\* settings: settings.aiEnabled || false, settings.aiEndpoint || "", ...
configOf(s) ==
    [enabled |-> PropOr(s, "aiEnabled", FALSE),
     endpoint |-> PropOr(s, "aiEndpoint", ""),
     apiKey |-> PropOr(s, "aiApiKey", ""),
     model |-> IF PropOr(s, "aiModel", "") = "" THEN defaultModel ELSE s.aiModel]

\* the keys of localStorage
HistoryKey == "ai-chat-history"
SettingsKey == "settings"

\* JSON.stringify of a boolean, a string without special characters, a chat
\* message, a message log and the settings
boolText(b) == IF b THEN "true" ELSE "false"
quoted(text) == "\"" \o text \o "\""
\* the instants of Date.now() and new Date(), in milliseconds
Times == {1, 2}
\* Date.prototype.toISOString, which JSON.stringify writes for a Date
isoText(now) == "1970-01-01T00:00:00.00" \o ToString(now) \o "Z"
\* a timestamp is a Date, [date |-> instant], or a string, [string |-> text]
timestampText(timestamp) ==
    IF Has(timestamp, "date") THEN isoText(timestamp.date) ELSE timestamp.string
\* { id: Date.now() + Math.random(), ...message, timestamp: new Date() }
stamped(message, now) ==
    [id |-> now, role |-> message.role, content |-> message.content,
     timestamp |-> [date |-> now]]
\* JSON.parse(JSON.stringify(message)): a Date comes back as its text
revived(message) ==
    IF Has(message, "timestamp")
    THEN [message EXCEPT !.timestamp = [string |-> timestampText(@)]]
    ELSE message
messageText(message) ==
    IF Has(message, "id")
    THEN "{\"id\":" \o ToString(message.id) \o ",\"role\":" \o quoted(message.role)
         \o ",\"content\":" \o quoted(message.content) \o ",\"timestamp\":"
         \o quoted(timestampText(message.timestamp)) \o "}"
    ELSE "{\"role\":" \o quoted(message.role) \o ",\"content\":" \o quoted(message.content)
         \o "}"
settingsText(s) ==
    "{\"mode\":" \o quoted(s.mode) \o ",\"aiEnabled\":" \o boolText(s.aiEnabled)
    \o ",\"aiEndpoint\":" \o quoted(s.aiEndpoint) \o ",\"aiApiKey\":" \o quoted(s.aiApiKey)
    \o ",\"aiModel\":" \o quoted(s.aiModel) \o "}"

\* the messages of the stored logs, the settings a user saved and the
\* settings an earlier version of the editor saved, without the AI keys
StoredMessages == {userMessage("hi"), aiMessage("hello")}
savedSettings ==
    [mode |-> "dark", aiEnabled |-> TRUE, aiEndpoint |-> "http://llm", aiApiKey |-> "sk-1",
     aiModel |-> "gpt-4"]
keylessSettings == [savedSettings EXCEPT !.aiApiKey = ""]
SavedSettingsDoc ==
    "{\"mode\":\"dark\",\"aiEnabled\":true,\"aiEndpoint\":\"http://llm\",\"aiApiKey\":\"sk-1\","
    \o "\"aiModel\":\"gpt-4\"}"
OldSettingsDoc == "{\"mode\":\"light\"}"
OtherObjectDoc == "{\"a\":1}"
EmptyListDoc == "[]"
OneMessageDoc == "[{\"role\":\"user\",\"content\":\"hi\"}]"
CorruptDoc == "{bad"

IsArray(v) == Has(v, "isArray") /\ v.isArray

JSONstringify(v) ==
    IF IsNull(v) THEN "null"
    ELSE IF IsArray(v)
    THEN "[" \o join([k \in DOMAIN v.items |-> messageText(v.items[k])], ",") \o "]"
    ELSE IF Has(v, "aiEnabled") THEN settingsText(v)
    ELSE IF Has(v, "mode") THEN OldSettingsDoc
    ELSE OtherObjectDoc

\* the messages a stored log can hold
ParsedMessages ==
    StoredMessages \cup {revived(stamped(message, now)) : message \in StoredMessages, now \in Times}

LogsUpTo(n) == UNION {[1..k -> ParsedMessages] : k \in 0..n}

\* JSON.parse on the texts the storage of this model can hold: the documents
\* above, the text of a settings object and the text of a message log; any
\* other text is a SyntaxError
StoredDocuments == <<
    <<NullDoc, Null>>,
    <<OtherObjectDoc, [a |-> 1]>>,
    <<OldSettingsDoc, [mode |-> "light"]>>,
    <<SavedSettingsDoc, savedSettings>>,
    <<EmptyListDoc, Arr(<<>>)>>,
    <<OneMessageDoc, Arr(<<userMessage("hi")>>)>> >>

SettingsObjects ==
    {defaultSettings, savedSettings, keylessSettings,
     [savedSettings EXCEPT !.aiEndpoint = ""],
     [savedSettings EXCEPT !.aiEndpoint = "", !.aiApiKey = ""]}

\* the text of every log the storage can hold, computed once
StoredLogs == {[text |-> JSONstringify(Arr(l)), log |-> l] : l \in LogsUpTo(MaxMessages)}

JSONParseStored(text) ==
    IF \E k \in DOMAIN StoredDocuments : StoredDocuments[k][1] = text
    THEN [ok |-> TRUE,
          value |-> StoredDocuments[CHOOSE k \in DOMAIN StoredDocuments :
                                        StoredDocuments[k][1] = text][2]]
    ELSE IF \E o \in SettingsObjects : settingsText(o) = text
    THEN [ok |-> TRUE, value |-> CHOOSE o \in SettingsObjects : settingsText(o) = text]
    ELSE IF \E e \in StoredLogs : e.text = text
    THEN [ok |-> TRUE, value |-> Arr((CHOOSE e \in StoredLogs : e.text = text).log)]
    ELSE [ok |-> FALSE]

\* what the storage may hold under each key when the editor starts
StoredHistories == {null, "", CorruptDoc, EmptyListDoc, OneMessageDoc, NullDoc, OtherObjectDoc}
StoredSettings == {null, CorruptDoc, NullDoc, OldSettingsDoc, SavedSettingsDoc}

(***************************************************************************)
(* State                                                                   *)
(***************************************************************************)
diagramVars == <<tables, relationships, notes, undoStack, redoStack>>
chatVars == <<messages, isLoading, error, inputValue, requests, lastSend>>
parseVars == <<prose, blocks, parsed>>
sessionVars ==
    <<localStorage, settings, aiConfig, isOpen, app, formData, testRequests, toast>>
contextVars == <<areas, types, enums, context>>
vars == <<tables, relationships, notes, undoStack, redoStack, messages, isLoading, error,
          inputValue, requests, lastSend, batch, prose, blocks, parsed,
          localStorage, settings, aiConfig, isOpen, app, formData, testRequests, toast,
          areas, types, enums, context>>

emptyDiagram ==
    [tables |-> <<>>, relationships |-> <<>>, notes |-> <<>>, undoStack |-> <<>>,
     redoStack |-> <<>>]

Diagram ==
    [tables |-> tables, relationships |-> relationships, notes |-> notes,
     undoStack |-> undoStack, redoStack |-> redoStack]

noBatch ==
    [ran |-> FALSE, content |-> "", before |-> emptyDiagram, addedTables |-> <<>>,
     appliedCount |-> 0, errors |-> <<>>, aborted |-> FALSE, log |-> <<>>,
     suggestions |-> emptySuggestions, reported |-> <<>>]

notParsed == [done |-> FALSE, threw |-> FALSE, value |-> emptySuggestions]

\* the response text made of some prose and the JSON blocks after it
Response(text, bodies) ==
    text \o join([k \in DOMAIN bodies |-> Fenced(bodies[k])], "\n")

\* the storage once the providers have saved a log and the settings
storageOf(log, s) ==
    [key \in {HistoryKey, SettingsKey} |->
        IF key = HistoryKey THEN JSONstringify(log) ELSE JSONstringify(s)]

\* the editor running with the saved settings and the panel open; the panel's
\* specification leaves the storage as it is
InitConfigured ==
    /\ localStorage = storageOf(Arr(<<>>), savedSettings)
    /\ settings = savedSettings
    /\ aiConfig = configOf(savedSettings)
    /\ isOpen = TRUE
    /\ app = "running"
    /\ formData = configOf(savedSettings)
    /\ testRequests = <<>>
    /\ toast = "none"

\* no context built
notBuilt == [built |-> FALSE]

InitNoContext ==
    /\ areas = <<>>
    /\ types = <<>>
    /\ enums = <<>>
    /\ context = notBuilt

InitPanel ==
    /\ InitConfigured
    /\ InitNoContext
    /\ \E d \in SampleDiagrams :
          /\ tables = d.tables
          /\ relationships = d.relationships
          /\ notes = d.notes
          /\ undoStack = d.undoStack
          /\ redoStack = d.redoStack
    /\ messages \in {<<>>} \cup {<<aiMessage(c)>> : c \in ApplyTexts}
    /\ isLoading = FALSE
    /\ error = null
    /\ inputValue = ""
    /\ requests = <<>>
    /\ lastSend = "none"
    /\ batch = noBatch

Init ==
    /\ InitPanel
    /\ prose = ""
    /\ blocks = <<>>
    /\ parsed = notParsed

(***************************************************************************)
(* The chat                                                                *)
(***************************************************************************)
\* the text area's onChange; the area is disabled while the diagram has no table
TypeInput(v) ==
    /\ tables # <<>>
    /\ inputValue' = v
    /\ UNCHANGED <<diagramVars, messages, isLoading, error, requests, lastSend, batch,
                   parseVars, sessionVars, contextVars>>

\* a guard that looks at the input alone
sendRefusedWhenBlank == trim(inputValue) = ""

\* the guard of handleSendMessage: nothing to send, or a request outstanding
sendRefused == trim(inputValue) = "" \/ isLoading

\* AIChatPanel.handleSendMessage; errorBefore is the error the handler finds.
\* lastSend records the way the last call went: "blank" and "busy" for the two
\* early returns, "noDiagram" and "sent" for the two ways it goes on.
handleSendMessage(errorBefore) ==
    IF sendRefused
    THEN /\ error' = errorBefore
         /\ lastSend' = IF trim(inputValue) = "" THEN "blank" ELSE "busy"
         /\ UNCHANGED <<messages, isLoading, inputValue, requests>>
    ELSE /\ inputValue' = ""
         /\ error' = null
         /\ IF tables = <<>>
            THEN /\ messages' = messages \o <<userMessage(trim(inputValue)),
                                               aiMessage(noDiagramMessage)>>
                 /\ isLoading' = FALSE
                 /\ lastSend' = "noDiagram"
                 /\ UNCHANGED requests
            ELSE /\ messages' = Append(messages, userMessage(trim(inputValue)))
                 /\ isLoading' = TRUE
                 /\ lastSend' = "sent"
                 /\ requests' = Append(requests, [message |-> trim(inputValue),
                                                   endpoint |-> aiConfig.endpoint,
                                                   apiKey |-> aiConfig.apiKey])

\* the send button, enabled as its disabled attribute leaves it
ClickSend ==
    /\ trim(inputValue) # "" /\ ~isLoading /\ tables # <<>>
    /\ Len(messages) < MaxMessages
    /\ handleSendMessage(error)
    /\ UNCHANGED <<diagramVars, batch, parseVars, sessionVars, contextVars>>

\* handleKeyPress on Enter in the text area
PressEnter ==
    /\ tables # <<>>
    /\ Len(messages) < MaxMessages
    /\ handleSendMessage(error)
    /\ UNCHANGED <<diagramVars, batch, parseVars, sessionVars, contextVars>>

\* the retry button of the error banner: clearError, then handleSendMessage
ClickRetry ==
    /\ error # null
    /\ Len(messages) + 1 < MaxMessages
    /\ handleSendMessage(null)
    /\ UNCHANGED <<diagramVars, batch, parseVars, sessionVars, contextVars>>

\* a continuation that leaves the loading flag on when the send failed
RespondLeavesLoading(k, response) ==
    /\ k \in DOMAIN requests
    /\ requests' = SubSeq(requests, 1, k - 1) \o SubSeq(requests, k + 1, Len(requests))
    /\ IF response.success
       THEN /\ Len(messages) < MaxMessages
            /\ messages' = Append(messages, aiMessage(response.content))
            /\ UNCHANGED error
       ELSE /\ error' = response.error
            /\ UNCHANGED messages
    /\ isLoading' = ~response.success
    /\ UNCHANGED <<diagramVars, inputValue, lastSend, batch, parseVars, sessionVars,
                   contextVars>>

\* the rest of handleSendMessage once the client's promise resolves, or once
\* an exception reaches its catch
Respond(k, response) ==
    /\ k \in DOMAIN requests
    /\ requests' = SubSeq(requests, 1, k - 1) \o SubSeq(requests, k + 1, Len(requests))
    /\ IF response.success
       THEN /\ Len(messages) < MaxMessages
            /\ messages' = Append(messages, aiMessage(response.content))
            /\ UNCHANGED error
       ELSE /\ error' = response.error
            /\ UNCHANGED messages
    /\ isLoading' = FALSE
    /\ UNCHANGED <<diagramVars, inputValue, lastSend, batch, parseVars, sessionVars,
                   contextVars>>

\* what handleSendMessage gets: the client's answer, or an exception
Responses ==
    {[success |-> TRUE, content |-> c] : c \in RemoteTexts}
    \cup {[success |-> FALSE, error |-> e] : e \in RemoteErrors \cup {sendFailedError}}

\* a pending handleSendMessage goes on
Responding == \E k \in 1..MaxMessages, response \in Responses : Respond(k, response)

\* the clear button, shown while there are messages: AIContext.clearMessages
ClearMessages ==
    /\ messages # <<>>
    /\ messages' = <<>>
    /\ UNCHANGED <<diagramVars, isLoading, error, inputValue, requests, lastSend, batch,
                   parseVars, sessionVars, contextVars>>

\* the state a run r of handleApplySuggestion on content leaves
Applied(content, r) ==
    /\ Len(r.b.d.tables) <= MaxTables
    /\ Len(r.b.d.relationships) <= MaxRelationships
    /\ Len(r.b.d.notes) <= MaxNotes
    /\ Len(messages) + Len(r.messages) <= MaxMessages
    /\ tables' = r.b.d.tables
    /\ relationships' = r.b.d.relationships
    /\ notes' = r.b.d.notes
    /\ undoStack' = r.b.d.undoStack
    /\ redoStack' = r.b.d.redoStack
    /\ messages' = messages \o r.messages
    /\ error' = IF r.b.aborted THEN applyFailedError ELSE error
    /\ batch' = [ran |-> TRUE, content |-> content,
                 before |-> Diagram, addedTables |-> r.b.addedTables,
                 appliedCount |-> r.b.appliedCount, errors |-> r.b.errors,
                 aborted |-> r.b.aborted, log |-> r.b.log,
                 suggestions |-> r.suggestions, reported |-> r.messages]

\* the apply button of the k-th message
ClickApply(k) ==
    /\ k \in DOMAIN messages
    /\ showsApply(messages[k])
    /\ Applied(messages[k].content, handleApplySuggestion(messages[k].content, Diagram))
    /\ UNCHANGED <<isLoading, inputValue, requests, lastSend, parseVars, sessionVars,
                   contextVars>>

Next ==
    \/ \E v \in UserInputs : TypeInput(v)
    \/ ClickSend
    \/ PressEnter
    \/ ClickRetry
    \/ Responding
    \/ ClearMessages
    \/ \E k \in 1..MaxMessages : ClickApply(k)

Spec == Init /\ [][Next]_vars

\* the client gives every request an answer or an error within its timeout of
\* 30 seconds, so a pending handleSendMessage does go on
SpecLive == Spec /\ WF_vars(Responding)

(***************************************************************************)
(* parseAIResponse on its own: a response text, made of some prose and of  *)
(* the fenced JSON blocks after it, is parsed once.                        *)
(***************************************************************************)
\* the prose of a response
ParseTexts ==
    {"", "Looks good.", "I recommend adding table orders", "link posts to users",
     "CREATE TABLE orders", "FK posts -> users", "users has many orders",
     "add a note about the schema", "Please document every column."}

\* the bodies of its JSON blocks
BlockBodies == {FooDoc, NotArrayDoc, NullDoc, MalformedDoc, RelDoc}

BlockSequences == UNION {[1..n -> BlockBodies] : n \in 0..MaxBlocks}

InitParse ==
    /\ tables = <<>>
    /\ relationships = <<>>
    /\ notes = <<>>
    /\ undoStack = <<>>
    /\ redoStack = <<>>
    /\ messages = <<>>
    /\ isLoading = FALSE
    /\ error = null
    /\ inputValue = ""
    /\ requests = <<>>
    /\ lastSend = "none"
    /\ batch = noBatch
    /\ InitConfigured
    /\ InitNoContext
    /\ prose \in ParseTexts
    /\ blocks \in BlockSequences
    /\ parsed = notParsed

\* what a call of parseAIResponse leaves
parsedAs(result) == [done |-> TRUE, threw |-> result.threw, value |-> result.value]

\* the call parseAIResponse(response) on the response text
Parse ==
    /\ ~parsed.done
    /\ parsed' = parsedAs(parseAIResponse(Response(prose, blocks)))
    /\ UNCHANGED <<diagramVars, chatVars, batch, prose, blocks, sessionVars, contextVars>>

NextParse == Parse

SpecParse == InitParse /\ [][NextParse]_vars

(***************************************************************************)
(* handleApplySuggestion on its own: the apply button of a reply, pressed  *)
(* once or again, on a diagram the editor has made.                        *)
(***************************************************************************)
\* the replies the batches are made of
BatchTexts ==
    ApplyTexts
    \cup {jsonReply(doc) : doc \in {FooDoc, UnnamedDoc, SelfRelDoc, FieldsDoc, NotePositionDoc,
                                    NoteAwayDoc, NoContentDoc, NotArrayDoc}}

\* a second table of the editor, without a primary key
ordersTable ==
    [id |-> 3, name |-> "orders", x |-> 0, y |-> 0, locked |-> FALSE,
     fields |-> <<[id |-> 4, name |-> "user_id", type |-> "INTEGER", default |-> "",
                   check |-> "", primary |-> FALSE, unique |-> FALSE, notNull |-> FALSE,
                   increment |-> FALSE, comment |-> ""]>>,
     comment |-> "", indices |-> <<>>, color |-> "#175e7a"]

BatchDiagrams ==
    SampleDiagrams
    \cup {[tables |-> <<usersTable, ordersTable>>, relationships |-> <<>>, notes |-> <<>>,
           undoStack |-> <<>>, redoStack |-> <<>>]}

InitApply ==
    /\ InitConfigured
    /\ InitNoContext
    /\ \E d \in BatchDiagrams :
          /\ tables = d.tables
          /\ relationships = d.relationships
          /\ notes = d.notes
          /\ undoStack = d.undoStack
          /\ redoStack = d.redoStack
    /\ messages \in {<<aiMessage(c)>> : c \in BatchTexts}
    /\ isLoading = FALSE
    /\ error = null
    /\ inputValue = ""
    /\ requests = <<>>
    /\ lastSend = "none"
    /\ batch = noBatch
    /\ prose = ""
    /\ blocks = <<>>
    /\ parsed = notParsed

NextApply == \E k \in 1..MaxMessages : ClickApply(k)

SpecApply == InitApply /\ [][NextApply]_vars

(***************************************************************************)
(* aiActions: applyTableSuggestion, applyRelationshipSuggestion and        *)
(* applyBatchSuggestions, called with the diagram's addTable,              *)
(* addRelationship, setUndoStack and setRedoStack.  Here batch holds the   *)
(* last call: its name, its input, the diagram before it and its result.   *)
(***************************************************************************)
\* setUndoStack(prev => [...prev, entry]); setRedoStack([])
pushUndo(d, entry) == [d EXCEPT !.undoStack = Append(@, entry), !.redoStack = <<>>]

\* !value, for a string-valued property
falsy(obj, key) == ~Has(obj, key) \/ obj[key] = ""

\* the try block of applyTableSuggestion throws: the data is null (reading
\* its name), fails the validation, or holds a null field (reading its name)
tableThrows(tableData) ==
    \/ IsNull(tableData)
    \/ falsy(tableData, "name")
    \/ ~Has(tableData, "fields")
    \/ \E k \in DOMAIN tableData.fields : IsNull(tableData.fields[k])

applyTableSuggestion(tableData, d) ==
    IF tableThrows(tableData)
    THEN [success |-> FALSE, d |-> d]
    ELSE LET newTable ==
                 [name |-> tableData.name,
                  fields |-> [k \in DOMAIN tableData.fields |->
                                [name |-> Prop(tableData.fields[k], "name"),
                                 type |-> Prop(tableData.fields[k], "type"),
                                 primaryKey |-> PropOr(tableData.fields[k], "primaryKey", FALSE),
                                 notNull |-> PropOr(tableData.fields[k], "notNull", FALSE),
                                 unique |-> PropOr(tableData.fields[k], "unique", FALSE),
                                 comment |-> PropOr(tableData.fields[k], "comment", "")]],
                  comment |-> PropOr(tableData, "comment", ""),
                  position |-> PropOr(tableData, "position", [x |-> 100, y |-> 100])]
         IN  [success |-> TRUE,
              d |-> pushUndo(addTable(d, newTable, FALSE),
                             [action |-> "ADD", element |-> "TABLE",
                              message |-> "ai_applied_table_suggestion", data |-> newTable])]

\* the try block of applyRelationshipSuggestion throws
relationshipThrows(relData) ==
    \/ IsNull(relData)
    \/ falsy(relData, "fromTable") \/ falsy(relData, "toTable")
    \/ falsy(relData, "fromField") \/ falsy(relData, "toField")

applyRelationshipSuggestion(relData, d) ==
    IF relationshipThrows(relData)
    THEN [success |-> FALSE, d |-> d]
    ELSE LET newRelationship ==
                 [fromTable |-> relData.fromTable, toTable |-> relData.toTable,
                  fromField |-> relData.fromField, toField |-> relData.toField,
                  cardinality |-> PropOr(relData, "cardinality", "one_to_many"),
                  constraint |-> PropOr(relData, "constraint", "No action")]
         IN  [success |-> TRUE,
              d |-> pushUndo(addRelationship(d, newRelationship, FALSE),
                             [action |-> "ADD", element |-> "RELATIONSHIP",
                              message |-> "ai_applied_relationship_suggestion",
                              data |-> newRelationship])]

\* the forEach over the tables of applyBatchSuggestions: a failed null item
\* throws out of the batch when the error message reads its name
RECURSIVE batchTablesLoop(_, _, _)
batchTablesLoop(r, items, k) ==
    IF k > Len(items) \/ r.threw THEN r
    ELSE LET result == applyTableSuggestion(items[k], r.d)
         IN  batchTablesLoop(
                 IF result.success THEN [r EXCEPT !.d = result.d, !.applied = @ + 1]
                 ELSE IF IsNull(items[k]) THEN [r EXCEPT !.threw = TRUE]
                 ELSE [r EXCEPT !.errors = @ + 1],
                 items, k + 1)

RECURSIVE batchRelationshipsLoop(_, _, _)
batchRelationshipsLoop(r, items, k) ==
    IF k > Len(items) \/ r.threw THEN r
    ELSE LET result == applyRelationshipSuggestion(items[k], r.d)
         IN  batchRelationshipsLoop(
                 IF result.success THEN [r EXCEPT !.d = result.d, !.applied = @ + 1]
                 ELSE [r EXCEPT !.errors = @ + 1],
                 items, k + 1)

\* applyBatchSuggestions(suggestions, context), for suggestions without
\* optimizations
applyBatchSuggestions(suggestions, d) ==
    batchRelationshipsLoop(
        batchTablesLoop([d |-> d, applied |-> 0, errors |-> 0, threw |-> FALSE],
                        suggestions.tables, 1),
        suggestions.relationships, 1)

TableCandidates ==
    {Null, [name |-> "foo", fields |-> <<IdField>>], [fields |-> <<IdField>>], [name |-> "a"],
     [name |-> "", fields |-> <<IdField>>], [name |-> "c", fields |-> <<IdField, Null>>],
     [name |-> "bar", fields |-> <<>>, position |-> [x |-> 0, y |-> 0]]}

RelationshipCandidates ==
    {Null,
     [fromTable |-> "foo", toTable |-> "users", fromField |-> "id", toField |-> "id"],
     [fromTable |-> "foo", toTable |-> "users", fromField |-> "id"],
     [fromTable |-> "foo", toTable |-> "", fromField |-> "id", toField |-> "id"],
     [fromTable |-> "users", toTable |-> "users", fromField |-> "id", toField |-> "id",
      cardinality |-> "one_to_one"]}

SuggestionCandidates ==
    {[tables |-> <<[name |-> "foo", fields |-> <<IdField>>], [name |-> "a"]>>,
      relationships |-> <<[fromTable |-> "foo", toTable |-> "users", fromField |-> "id",
                           toField |-> "id"]>>],
     [tables |-> <<[name |-> "foo", fields |-> <<IdField>>], Null,
                   [name |-> "bar", fields |-> <<IdField>>]>>,
      relationships |-> <<>>],
     [tables |-> <<>>,
      relationships |-> <<[fromTable |-> "foo"],
                          [fromTable |-> "foo", toTable |-> "users", fromField |-> "id",
                           toField |-> "id"]>>]}

\* the entries one editor keeps in its history
MaxUndo == 4

InitActions ==
    /\ InitConfigured
    /\ InitNoContext
    /\ \E d \in BatchDiagrams :
          /\ tables = d.tables
          /\ relationships = d.relationships
          /\ notes = d.notes
          /\ undoStack = d.undoStack
          /\ redoStack = d.redoStack
    /\ messages = <<>>
    /\ isLoading = FALSE
    /\ error = null
    /\ inputValue = ""
    /\ requests = <<>>
    /\ lastSend = "none"
    /\ batch = noBatch
    /\ prose = ""
    /\ blocks = <<>>
    /\ parsed = notParsed

\* the state after a call of aiActions that left the diagram d
Called(call, input, d, success, threw) ==
    /\ Len(d.tables) <= MaxTables
    /\ Len(d.relationships) <= MaxRelationships
    /\ Len(d.undoStack) <= MaxUndo
    /\ tables' = d.tables
    /\ relationships' = d.relationships
    /\ notes' = d.notes
    /\ undoStack' = d.undoStack
    /\ redoStack' = d.redoStack
    /\ batch' = [ran |-> TRUE, call |-> call, input |-> input, before |-> Diagram,
                 success |-> success, threw |-> threw]
    /\ UNCHANGED <<chatVars, parseVars, sessionVars, contextVars>>

ApplyTableSuggestion(tableData) ==
    Called("applyTableSuggestion", tableData, applyTableSuggestion(tableData, Diagram).d,
           applyTableSuggestion(tableData, Diagram).success, FALSE)

ApplyRelationshipSuggestion(relData) ==
    Called("applyRelationshipSuggestion", relData, applyRelationshipSuggestion(relData, Diagram).d,
           applyRelationshipSuggestion(relData, Diagram).success, FALSE)

ApplyBatchSuggestions(suggestions) ==
    Called("applyBatchSuggestions", suggestions, applyBatchSuggestions(suggestions, Diagram).d,
           applyBatchSuggestions(suggestions, Diagram).errors = 0,
           applyBatchSuggestions(suggestions, Diagram).threw)

NextActions ==
    \/ \E tableData \in TableCandidates : ApplyTableSuggestion(tableData)
    \/ \E relData \in RelationshipCandidates : ApplyRelationshipSuggestion(relData)
    \/ \E suggestions \in SuggestionCandidates : ApplyBatchSuggestions(suggestions)

SpecActions == InitActions /\ [][NextActions]_vars

(***************************************************************************)
(* The providers: the start of the editor, the stored chat history and the *)
(* stored settings.  Here the log is the value the provider holds, which   *)
(* comes from the storage and need not be an array.                        *)
(***************************************************************************)
\* the initializer of the messages state
loadMessages(saved) ==
    IF saved \in {null, ""} THEN Arr(<<>>)
    ELSE IF JSONParseStored(saved).ok THEN JSONParseStored(saved).value
    ELSE Arr(<<>>)

\* the load effect of the settings provider: the settings it sets, or the
\* SyntaxError of JSON.parse, which nothing catches
loadSettings(saved) ==
    IF saved \in {null, ""} THEN [threw |-> FALSE, value |-> defaultSettings]
    ELSE IF JSONParseStored(saved).ok
    THEN [threw |-> FALSE, value |-> JSONParseStored(saved).value]
    ELSE [threw |-> TRUE, value |-> defaultSettings]

\* a render of the providers reads settings.mode and settings.aiEnabled, a
\* TypeError when the settings are null
rendersProviders(s) == ~IsNull(s)

\* a render of the open panel reads messages.length and calls messages.map, a
\* TypeError when the log is no array
rendersPanel(open, log) == ~open \/ IsArray(log)

\* setMessages(prev => [...prev, message]): a TypeError when prev is not
\* iterable
addMessage(prev, message, now) ==
    IF IsArray(prev)
    THEN [threw |-> FALSE, value |-> Arr(Append(prev.items, stamped(message, now)))]
    ELSE [threw |-> TRUE, value |-> prev]

\* the save effect does not run
savedHistoryStale(log) == localStorage

\* the storage after the save effect of the messages
savedHistory(log) == [localStorage EXCEPT ![HistoryKey] = JSONstringify(log)]

\* the state of a page that is not loaded
Unmounted ==
    /\ settings = defaultSettings
    /\ aiConfig = configOf(defaultSettings)
    /\ messages = Arr(<<>>)
    /\ isOpen = FALSE
    /\ app = "unmounted"

InitStart ==
    /\ tables = <<>>
    /\ relationships = <<>>
    /\ notes = <<>>
    /\ undoStack = <<>>
    /\ redoStack = <<>>
    /\ isLoading = FALSE
    /\ error = null
    /\ inputValue = ""
    /\ requests = <<>>
    /\ lastSend = "none"
    /\ batch = noBatch
    /\ prose = ""
    /\ blocks = <<>>
    /\ parsed = notParsed
    /\ InitNoContext
    /\ formData = configOf(defaultSettings)
    /\ testRequests = <<>>
    /\ toast = "none"
    /\ localStorage \in [{HistoryKey, SettingsKey} -> StoredHistories \cup StoredSettings]
    /\ localStorage[HistoryKey] \in StoredHistories
    /\ localStorage[SettingsKey] \in StoredSettings
    /\ Unmounted

startUnchanged ==
    UNCHANGED <<diagramVars, isLoading, error, inputValue, requests, lastSend, batch,
                parseVars, formData, testRequests, toast, contextVars>>

\* the first render of the two providers and their effects: the log comes
\* from the initializer and is saved at once; the load effect of the settings
\* parses the stored text, the save effect after it stores the default
\* settings, and the render with the loaded settings stores those
Mount ==
    /\ app = "unmounted"
    /\ messages' = loadMessages(localStorage[HistoryKey])
    /\ isOpen' = FALSE
    /\ LET loaded == loadSettings(localStorage[SettingsKey])
           log == loadMessages(localStorage[HistoryKey])
       IN  IF loaded.threw
           THEN /\ app' = "crashed"
                /\ settings' = defaultSettings
                /\ aiConfig' = configOf(defaultSettings)
                /\ localStorage' = savedHistory(log)
           ELSE IF ~rendersProviders(loaded.value)
           THEN /\ app' = "crashed"
                /\ settings' = loaded.value
                /\ aiConfig' = configOf(defaultSettings)
                /\ localStorage' = storageOf(log, defaultSettings)
           ELSE /\ app' = "running"
                /\ settings' = loaded.value
                /\ aiConfig' = configOf(loaded.value)
                /\ localStorage' = storageOf(log, loaded.value)
    /\ startUnchanged

\* the floating button, shown while the assistant is enabled and has an
\* endpoint: togglePanel, and the render of the panel when it opens
TogglePanel ==
    /\ app = "running"
    /\ aiConfig.enabled
    /\ aiConfig.endpoint # ""
    /\ isOpen' = ~isOpen
    /\ app' = IF rendersPanel(~isOpen, messages) THEN "running" ELSE "crashed"
    /\ UNCHANGED <<messages, localStorage, settings, aiConfig>>
    /\ startUnchanged

\* the open panel appends a message: addMessage and the save effect
AddMessage(message) ==
    /\ app = "running"
    /\ isOpen
    /\ Len(messages.items) < MaxMessages
    /\ \E now \in Times :
          /\ ~addMessage(messages, message, now).threw
          /\ messages' = addMessage(messages, message, now).value
          /\ localStorage' = savedHistory(addMessage(messages, message, now).value)
    /\ UNCHANGED <<settings, aiConfig, isOpen, app>>
    /\ startUnchanged

\* the clear button of the open panel: clearMessages removes the stored
\* history, and the save effect stores the empty log
ClearChat ==
    /\ app = "running"
    /\ isOpen
    /\ messages.items # <<>>
    /\ messages' = Arr(<<>>)
    /\ localStorage' = savedHistory(Arr(<<>>))
    /\ UNCHANGED <<settings, aiConfig, isOpen, app>>
    /\ startUnchanged

\* the texts of the files a user may import
ImportTexts == {CorruptDoc, NullDoc, EmptyListDoc, OneMessageDoc}

\* importChatHistory on a file of the given text: the reader's onload parses
\* it and sets the log to the parsed value; a SyntaxError ends the callback.
\* When the render with the new log throws, nothing is committed and the save
\* effect does not run.
ImportChatHistory(text) ==
    /\ app = "running"
    /\ IF JSONParseStored(text).ok
       THEN /\ messages' = JSONParseStored(text).value
            /\ IF rendersPanel(isOpen, JSONParseStored(text).value)
               THEN /\ app' = "running"
                    /\ localStorage' = savedHistory(JSONParseStored(text).value)
               ELSE /\ app' = "crashed"
                    /\ UNCHANGED localStorage
       ELSE UNCHANGED <<messages, localStorage, app>>
    /\ UNCHANGED <<settings, aiConfig, isOpen>>
    /\ startUnchanged

\* the page is closed or reloaded: what is not stored is gone
Reload ==
    /\ app # "unmounted"
    /\ settings' = defaultSettings
    /\ aiConfig' = configOf(defaultSettings)
    /\ messages' = Arr(<<>>)
    /\ isOpen' = FALSE
    /\ app' = "unmounted"
    /\ UNCHANGED localStorage
    /\ startUnchanged

NextStart ==
    \/ Mount
    \/ TogglePanel
    \/ \E message \in StoredMessages : AddMessage(message)
    \/ ClearChat
    \/ \E text \in ImportTexts : ImportChatHistory(text)
    \/ Reload

SpecStart == InitStart /\ [][NextStart]_vars

(***************************************************************************)
(* The context builder.  An object of the diagram that the editor may hold *)
(* on to carries its identity in a field ref; what a map or an object      *)
(* literal of the builder creates is new and carries none.                 *)
(***************************************************************************)
\* an object-valued property that is absent
undefinedObject == [jsUndefined |-> TRUE]
PropObject(obj, key) == IF Has(obj, key) THEN obj[key] ELSE undefinedObject

\* v || dflt for a string
orString(v, dflt) == IF v \in {undefined, ""} THEN dflt ELSE v

\* tables.find(t => t.id === id)?.name || 'unknown'
tableNameOr(ts, id) ==
    LET hits == {k \in DOMAIN ts : ts[k].id = id}
    IN  IF hits = {} THEN "unknown" ELSE orString(Prop(ts[Least(hits)], "name"), "unknown")

contextField(field) ==
    [name |-> Prop(field, "name"), type |-> Prop(field, "type"),
     primaryKey |-> PropOr(field, "primary", FALSE), notNull |-> PropOr(field, "notNull", FALSE),
     unique |-> PropOr(field, "unique", FALSE), increment |-> PropOr(field, "increment", FALSE),
     comment |-> orString(Prop(field, "comment"), ""),
     default |-> orString(Prop(field, "default"), "")]

contextTable(table) ==
    [name |-> Prop(table, "name"),
     fields |-> [k \in DOMAIN PropOr(table, "fields", <<>>) |-> contextField(table.fields[k])],
     comment |-> orString(Prop(table, "comment"), ""),
     position |-> PropObject(table, "position")]

contextRelationship(ts, rel) ==
    [fromTable |-> tableNameOr(ts, rel.startTableId),
     toTable |-> tableNameOr(ts, rel.endTableId),
     fromField |-> rel.startFieldId,
     toField |-> rel.endFieldId,
     cardinality |-> Prop(rel, "cardinality"),
     constraint |-> orString(Prop(rel, "constraint"), "No action"),
     name |-> orString(Prop(rel, "name"), "rel_" \o rel.id)]

\* collection || []
orEmptyArray(collection) ==
    IF Has(collection, "jsUndefined") THEN Arr(<<>>) ELSE collection

buildDiagramContext(diagramState) ==
    [database |-> diagramState.database,
     tables |-> [k \in DOMAIN diagramState.tables |-> contextTable(diagramState.tables[k])],
     relationships |-> [k \in DOMAIN diagramState.relationships |->
                          contextRelationship(diagramState.tables,
                                              diagramState.relationships[k])],
     areas |-> [k \in DOMAIN diagramState.areas |->
                  [name |-> Prop(diagramState.areas[k], "name"),
                   color |-> Prop(diagramState.areas[k], "color"),
                   position |-> PropObject(diagramState.areas[k], "position")]],
     notes |-> [k \in DOMAIN diagramState.notes |->
                  [content |-> Prop(diagramState.notes[k], "content"),
                   position |-> PropObject(diagramState.notes[k], "position")]],
     types |-> orEmptyArray(diagramState.types),
     enums |-> orEmptyArray(diagramState.enums)]

\* the diagrams the builder is given: a table as the panel adds it, a table
\* with a position object as aiActions adds it, a table whose name the
\* response left empty; a relationship between two of them and one whose
\* tables are gone
Object(ref, x, y) == [ref |-> ref, x |-> x, y |-> y]

ContextTables == <<
    [id |-> "t-users", name |-> "users", x |-> 0, y |-> 0, comment |-> "",
     fields |-> <<[id |-> "f-users-id", name |-> "id", type |-> "INTEGER", primary |-> TRUE]>>],
    [id |-> "t-posts", name |-> "posts", comment |-> "articles",
     position |-> Object("position of posts", 0, 0),
     fields |-> <<[id |-> "f-posts-user", name |-> "user_id", type |-> "INTEGER"]>>],
    [id |-> "t-empty", name |-> "", x |-> 0, y |-> 0,
     fields |-> <<[id |-> "f-empty-id", name |-> "id", type |-> "INTEGER"]>>] >>

ContextRelationships == <<
    [id |-> "r-1", name |-> "posts_users", startTableId |-> "t-posts",
     startFieldId |-> "f-posts-user", endTableId |-> "t-users", endFieldId |-> "f-users-id",
     cardinality |-> "many_to_one", constraint |-> "Cascade"],
    [id |-> "r-2", startTableId |-> "t-empty", startFieldId |-> "f-empty-id",
     endTableId |-> "t-gone", endFieldId |-> "f-gone", cardinality |-> "one_to_one"] >>

\* the subsequences of a sequence
RECURSIVE SubSequences(_)
SubSequences(xs) ==
    IF xs = <<>> THEN {<<>>}
    ELSE LET rest == SubSequences(Tail(xs))
         IN  rest \cup {<<Head(xs)>> \o r : r \in rest}

ContextNotes ==
    {<<>>, <<[id |-> "n-1", content |-> "schema", position |-> Object("position of note", 0, 0)]>>,
     <<[id |-> "n-1", content |-> "schema", x |-> 0, y |-> 0]>>}
ContextAreas ==
    {<<>>, <<[id |-> "a-1", name |-> "core", color |-> "#175e7a",
             position |-> Object("position of area", 0, 0)]>>}
ContextTypes ==
    {undefinedObject,
     [ref |-> "types", isArray |-> TRUE, items |-> <<>>],
     [ref |-> "types", isArray |-> TRUE,
      items |-> <<[ref |-> "type money", name |-> "money"]>>]}
ContextEnums ==
    {undefinedObject, [ref |-> "enums", isArray |-> TRUE, items |-> <<>>]}

InitContext ==
    /\ InitConfigured
    /\ undoStack = <<>>
    /\ redoStack = <<>>
    /\ messages = <<>>
    /\ isLoading = FALSE
    /\ error = null
    /\ inputValue = ""
    /\ requests = <<>>
    /\ lastSend = "none"
    /\ batch = noBatch
    /\ prose = ""
    /\ blocks = <<>>
    /\ parsed = notParsed
    /\ tables \in SubSequences(ContextTables)
    /\ relationships \in SubSequences(ContextRelationships)
    /\ notes \in ContextNotes
    /\ areas \in ContextAreas
    /\ types \in ContextTypes
    /\ enums \in ContextEnums
    /\ context = notBuilt

\* the diagram state handleSendMessage hands to the builder
DiagramState ==
    [tables |-> tables, relationships |-> relationships, database |-> "generic",
     areas |-> areas, notes |-> notes, types |-> types, enums |-> enums]

\* the call buildDiagramContext({tables, relationships, ...})
Build ==
    /\ ~context.built
    /\ context' = [built |-> TRUE, value |-> buildDiagramContext(DiagramState)]
    /\ UNCHANGED <<diagramVars, chatVars, batch, parseVars, sessionVars, areas, types, enums>>

NextContext == Build

SpecContext == InitContext /\ [][NextContext]_vars

(***************************************************************************)
(* The settings form of the assistant, beside the open panel               *)
(***************************************************************************)
\* what the user may put into the fields of the form
FormValues ==
    [enabled |-> {TRUE, FALSE}, endpoint |-> {"", "http://llm"}, apiKey |-> {"", "sk-1"}]

\* the answers of testConnection, which never rejects
TestResults ==
    {[success |-> TRUE, message |-> "Connection successful"],
     [success |-> FALSE, error |-> "Connection failed: No response from server"]}

configUnchanged ==
    UNCHANGED <<diagramVars, chatVars, batch, parseVars, isOpen, app, contextVars>>

\* the onChange of a field of the form
handleInputChange(field, value) ==
    /\ formData' = [formData EXCEPT ![field] = value]
    /\ UNCHANGED <<localStorage, settings, aiConfig, testRequests, toast>>
    /\ configUnchanged

\* the save button: the settings take the form's values, the provider's
\* configuration follows them, and the save effect stores the settings
handleSave ==
    /\ settings' = [settings EXCEPT !.aiEnabled = formData.enabled,
                                    !.aiEndpoint = formData.endpoint,
                                    !.aiApiKey = formData.apiKey,
                                    !.aiModel = formData.model]
    /\ aiConfig' = configOf(settings')
    /\ formData' = configOf(settings')
    /\ localStorage' = [localStorage EXCEPT ![SettingsKey] = JSONstringify(settings')]
    /\ toast' = "ai_settings_saved"
    /\ UNCHANGED testRequests
    /\ configUnchanged

\* the test button, which shows a spinner while a test is running
handleTestConnection ==
    /\ testRequests = <<>>
    /\ IF formData.endpoint = "" \/ formData.apiKey = ""
       THEN /\ toast' = "ai_fill_required_fields"
            /\ UNCHANGED testRequests
       ELSE /\ testRequests' = <<[endpoint |-> formData.endpoint, apiKey |-> formData.apiKey]>>
            /\ toast' = "none"
    /\ UNCHANGED <<localStorage, settings, aiConfig, formData>>
    /\ configUnchanged

\* the rest of handleTestConnection once the client has answered
TestAnswered(result) ==
    /\ testRequests # <<>>
    /\ testRequests' = <<>>
    /\ toast' = IF result.success THEN "ai_connection_success" ELSE result.error
    /\ UNCHANGED <<localStorage, settings, aiConfig, formData>>
    /\ configUnchanged

InitConfig ==
    /\ InitConfigured
    /\ InitNoContext
    /\ tables = <<usersTable>>
    /\ relationships = <<>>
    /\ notes = <<>>
    /\ undoStack = <<>>
    /\ redoStack = <<>>
    /\ messages = <<>>
    /\ isLoading = FALSE
    /\ error = null
    /\ inputValue = ""
    /\ requests = <<>>
    /\ lastSend = "none"
    /\ batch = noBatch
    /\ prose = ""
    /\ blocks = <<>>
    /\ parsed = notParsed

NextConfig ==
    \/ \E field \in DOMAIN FormValues : \E value \in FormValues[field] :
          handleInputChange(field, value)
    \/ handleSave
    \/ handleTestConnection
    \/ \E result \in TestResults : TestAnswered(result)
    \/ \E v \in UserInputs : TypeInput(v)
    \/ ClickSend
    \/ ClickRetry
    \/ Responding

SpecConfig == InitConfig /\ [][NextConfig]_vars

(***************************************************************************)
(* Properties of the apply batch.  batch is the record of the last run of  *)
(* handleApplySuggestion: before is the diagram the run started from, log  *)
(* has one outcome per item the run reached, tables first.                 *)
(***************************************************************************)
Count(log, outcomes) == Cardinality({k \in DOMAIN log : log[k] \in outcomes})

TableOutcomes == {"table:abort", "table:exists", "table:error", "table:added"}
RelationshipOutcomes == {"rel:abort", "rel:no-table", "rel:no-field", "rel:added"}
ErrorOutcomes == {"table:error", "rel:no-table", "rel:no-field", "note:error",
                  "note:added-then-error"}
AppliedOutcomes == {"table:added", "rel:added", "note:added"}

namesOf(ts) == {ts[k].name : k \in DOMAIN ts}

\* the items of the batch
ItemCount ==
    Len(batch.suggestions.tables) + Len(batch.suggestions.relationships)
    + Len(batch.suggestions.notes)

\* C1: in every batch each item is processed whatever became of the items
\* before it (a null entry included), no exception ends the batch, and the
\* batch ends by reporting the applied count and the errors.
C1_ItemsIndependentlyFallible ==
    batch.ran =>
        /\ ~batch.aborted
        /\ Len(batch.log) = ItemCount
        /\ batch.appliedCount > 0 =>
               \E k \in DOMAIN batch.reported :
                   batch.reported[k] = aiMessage(successMessage(batch.appliedCount))
        /\ batch.errors # <<>> =>
               \E k \in DOMAIN batch.reported :
                   batch.reported[k] = aiMessage(errorReport(batch.errors))

\* the table a relationship end resolves to among the given tables
endTable(all, name) == all[Least({k \in DOMAIN all : all[k].name = name})]

\* the outcome a relationship candidate is to have, given the tables that
\* were there before the batch and those the batch added
expectedOutcome(rel, all) ==
    IF ~({Prop(rel, "fromTable"), Prop(rel, "toTable")} \subseteq namesOf(all))
    THEN "rel:no-table"
    ELSE IF endTable(all, Prop(rel, "fromTable")).fields # <<>>
            /\ endTable(all, Prop(rel, "toTable")).fields # <<>>
    THEN "rel:added"
    ELSE "rel:no-field"

\* C2: the tables of a batch are processed before its relationships; every
\* relationship candidate is processed, against the tables that were there
\* before the batch and those the batch added: it adds exactly one relationship
\* when both its names are among them, and records exactly one error and adds
\* nothing when one is not.
C2_RelationshipsAgainstUnion ==
    batch.ran =>
        /\ \A k \in DOMAIN batch.log :
               (k <= Len(batch.suggestions.tables)) <=> (batch.log[k] \in TableOutcomes)
        /\ \A j \in DOMAIN batch.suggestions.relationships :
               /\ Len(batch.suggestions.tables) + j <= Len(batch.log)
               /\ ~IsNull(batch.suggestions.relationships[j]) =>
                      batch.log[Len(batch.suggestions.tables) + j] =
                          expectedOutcome(batch.suggestions.relationships[j],
                                          batch.before.tables \o batch.addedTables)
        /\ Len(relationships) =
               Len(batch.before.relationships) + Count(batch.log, {"rel:added"})
        /\ Len(batch.errors) = Count(batch.log, ErrorOutcomes)

\* C3: a table candidate that carries the name of a table the diagram already
\* has is a no-op: its outcome is that the table exists, and a table is added,
\* the applied count raised and an error recorded only for the items with
\* another outcome; a batch of such candidates alone leaves the diagram as it
\* was.
C3_ExistingTableIsNoOp ==
    batch.ran =>
        /\ \A k \in DOMAIN batch.log \cap DOMAIN batch.suggestions.tables :
               (/\ ~IsNull(batch.suggestions.tables[k])
                /\ Prop(batch.suggestions.tables[k], "name") \in namesOf(batch.before.tables))
               => batch.log[k] = "table:exists"
        /\ Len(tables) = Len(batch.before.tables) + Count(batch.log, {"table:added"})
        /\ SubSeq(tables, 1, Len(batch.before.tables)) = batch.before.tables
        /\ batch.appliedCount = Count(batch.log, AppliedOutcomes)
        /\ Len(batch.errors) = Count(batch.log, ErrorOutcomes)
        /\ (\A k \in DOMAIN batch.log : batch.log[k] = "table:exists") =>
               /\ Diagram = batch.before
               /\ batch.appliedCount = 0
               /\ batch.errors = <<>>

\* a batch of one candidate and more, all of them for a table that exists
C3_Witness ==
    /\ batch.ran
    /\ batch.log # <<>>
    /\ batch.log = [k \in DOMAIN batch.suggestions.tables |-> "table:exists"]
    /\ ItemCount = Len(batch.log)

\* C4: no two tables a batch adds share a name; a batch of table candidates
\* that all carry the same name, applied to an empty diagram, gives an applied
\* count of 1, no error and one table of that name.
C4_DeduplicatedAtApply ==
    batch.ran =>
        /\ \A i, j \in DOMAIN batch.addedTables :
               batch.addedTables[i].name = batch.addedTables[j].name => i = j
        /\ (/\ batch.before.tables = <<>>
            /\ batch.suggestions.tables # <<>>
            /\ \A k \in DOMAIN batch.suggestions.tables :
                   /\ ~IsNull(batch.suggestions.tables[k])
                   /\ Prop(batch.suggestions.tables[k], "name") = "orders"
            /\ ItemCount = Len(batch.suggestions.tables))
           => /\ batch.appliedCount = 1
              /\ batch.errors = <<>>
              /\ Len(tables) = 1
              /\ tables[1].name = "orders"

\* C5: a batch that added n tables and relationships leaves n more entries on
\* the undo stack than it found, and an empty redo stack.
C5_OneUndoEntryPerAdd ==
    batch.ran =>
        /\ Len(undoStack) =
               Len(batch.before.undoStack) + Count(batch.log, {"table:added", "rel:added"})
        /\ Count(batch.log, {"table:added", "rel:added"}) > 0 => redoStack = <<>>

(***************************************************************************)
(* Properties of parseAIResponse                                           *)
(***************************************************************************)
\* C6: the text "I recommend adding table orders" gives exactly one table
\* suggestion, named orders, with the fields id, created_at and updated_at and
\* the comment "AI-suggested table: orders", and no relationship or note.
C6_RecommendAddingTableOrders ==
    (parsed.done /\ prose = "I recommend adding table orders" /\ blocks = <<>>) =>
        /\ ~parsed.threw
        /\ Len(parsed.value.tables) = 1
        /\ parsed.value.tables[1].name = "orders"
        /\ [k \in DOMAIN parsed.value.tables[1].fields |->
               parsed.value.tables[1].fields[k].name] = <<"id", "created_at", "updated_at">>
        /\ parsed.value.tables[1].comment = "AI-suggested table: orders"
        /\ parsed.value.relationships = <<>>
        /\ parsed.value.notes = <<>>

\* C7: the text "link posts to users" gives exactly one relationship
\* suggestion, from posts (the name without the keyword before it) to users, on
\* the fields posts_id and id, one to many.
C7_LinkPostsToUsers ==
    (parsed.done /\ prose = "link posts to users" /\ blocks = <<>>) =>
        /\ ~parsed.threw
        /\ Len(parsed.value.relationships) = 1
        /\ parsed.value.relationships[1].fromTable = "posts"
        /\ parsed.value.relationships[1].toTable = "users"
        /\ parsed.value.relationships[1].fromField = "posts_id"
        /\ parsed.value.relationships[1].toField = "id"
        /\ parsed.value.relationships[1].cardinality = "one_to_many"

\* C8: parseAIResponse raises for no text, and for the empty text the tables,
\* relationships, notes, sqlQueries and optimizations it returns are all empty.
C8_ParseNeverRaises ==
    parsed.done =>
        /\ ~parsed.threw
        /\ (prose = "" /\ blocks = <<>>) =>
               /\ parsed.value.tables = <<>>
               /\ parsed.value.relationships = <<>>
               /\ parsed.value.notes = <<>>
               /\ parsed.value.sqlQueries = <<>>
               /\ parsed.value.optimizations = <<>>

\* the empty text has been parsed
C8_Witness ==
    /\ parsed.done
    /\ ~parsed.threw
    /\ prose = ""
    /\ blocks = <<>>
    /\ parsed.value = emptySuggestions

\* the items the document of a block body carries under a key: those of the
\* array when the body is a document with an array there, none otherwise
blockItems(body, key) ==
    IF \E k \in DOMAIN JsonDocuments :
          /\ JsonDocuments[k][1] = body
          /\ ~IsNull(JsonDocuments[k][2])
          /\ key \in DOMAIN JsonDocuments[k][2]
          /\ JsonDocuments[k][2][key].isArray
    THEN JsonDocuments[CHOOSE k \in DOMAIN JsonDocuments : JsonDocuments[k][1] = body][2][key].items
    ELSE <<>>

\* the items of all the blocks of the response, in order of appearance
itemsOfBlocks(key) == Flatten([k \in DOMAIN blocks |-> blockItems(blocks[k], key)])

\* C9: the JSON blocks of a text are handled one by one: the tables,
\* relationships and notes of the result begin with the arrays of the
\* well-formed blocks in order of appearance, whatever blocks fail to parse or
\* carry no array, and are exactly those arrays when the text is made of blocks
\* alone; a malformed block followed by a well-formed one gives the suggestions
\* of the well-formed block only.
C9_BlocksHandledOneByOne ==
    parsed.done =>
        /\ ~parsed.threw
        /\ \A key \in {"tables", "relationships", "notes"} :
               /\ Len(itemsOfBlocks(key)) <= Len(parsed.value[key])
               /\ SubSeq(parsed.value[key], 1, Len(itemsOfBlocks(key))) = itemsOfBlocks(key)
               /\ prose = "" => parsed.value[key] = itemsOfBlocks(key)
        /\ (prose = "" /\ blocks = <<MalformedDoc, FooDoc>>) =>
               /\ parsed.value.tables = <<[name |-> "foo", fields |-> <<IdField>>]>>
               /\ parsed.value.relationships = <<>>
               /\ parsed.value.notes = <<>>

\* a malformed block followed by a well-formed one has been parsed
C9_Witness ==
    /\ parsed.done
    /\ prose = ""
    /\ blocks = <<MalformedDoc, FooDoc>>
    /\ Len(parsed.value.tables) = 1

(***************************************************************************)
(* Properties of the chat session                                          *)
(***************************************************************************)
\* send is invoked: by the send button, the Enter key or the retry button
SendInvoked == ClickSend \/ PressEnter \/ ClickRetry

\* C10: at most one request is outstanding in every state, and invoking send
\* while one is outstanding issues no request and appends no message.
C10_OneRequestInFlight ==
    /\ [](Len(requests) <= 1)
    /\ [][(requests # <<>> /\ SendInvoked) => (requests' = requests /\ messages' = messages)]_vars

\* send was invoked with a text to send while a request was outstanding
C10_Witness ==
    /\ lastSend = "busy"
    /\ Len(requests) = 1
    /\ isLoading

\* a step that appends a user message
UserMessageAppended ==
    /\ Len(messages') > Len(messages)
    /\ messages'[Len(messages) + 1].role = "user"

\* the two ways a send goes on from its guard: a request is issued, or the
\* diagram has no table and the panel answers itself
SendIssued ==
    /\ messages' = Append(messages, userMessage(trim(inputValue)))
    /\ Len(requests') = Len(requests) + 1
    /\ requests'[Len(requests')].message = trim(inputValue)
    /\ isLoading'
    /\ error' = null

SendAnsweredHere ==
    /\ tables = <<>>
    /\ messages' = messages \o <<userMessage(trim(inputValue)), aiMessage(noDiagramMessage)>>
    /\ requests' = requests
    /\ ~isLoading'
    /\ error' = null

\* the two outcomes of a request
SendSucceeded ==
    /\ Len(messages') = Len(messages) + 1
    /\ SubSeq(messages', 1, Len(messages)) = messages
    /\ messages'[Len(messages')].role = "ai"
    /\ error' = error

SendFailed ==
    /\ messages' = messages
    /\ error' \in RemoteErrors \cup {sendFailedError}

FailedMessage == messages[Len(messages)].content

\* C12: in the error-displayed state of a failed send, pressing retry issues
\* a request that carries the content of the user message whose send failed,
\* whatever the text area holds.
C12_RetryReissuesRequest ==
    [][(/\ ClickRetry
        /\ error \in RemoteErrors \cup {sendFailedError}
        /\ ~isLoading
        /\ messages # <<>>
        /\ messages[Len(messages)].role = "user")
       => (/\ Len(requests') = 1
           /\ requests'[1].message = FailedMessage)]_vars

\* the request outstanding was issued before the log was cleared: its user
\* message is no longer in the log
ResetInFlight ==
    /\ requests # <<>>
    /\ \A k \in DOMAIN messages : messages[k] # userMessage(requests[1].message)

\* C16: the answer to a request that was outstanding when the log was cleared
\* is discarded: it appends no message and sets no error.
C16_StaleResponseDiscarded ==
    [][(ResetInFlight /\ Responding) => (messages' = messages /\ error' = error)]_vars

\* the log a stored text stands for: the list it holds, or the empty log when
\* nothing is stored, the text is no JSON or its value is no list
storedLog(saved) ==
    IF saved \notin {null, ""} /\ JSONParseStored(saved).ok
       /\ IsArray(JSONParseStored(saved).value)
    THEN JSONParseStored(saved).value
    ELSE Arr(<<>>)

\* the stored settings are absent, no JSON, or no object
settingsUnusable(saved) ==
    \/ saved \in {null, ""}
    \/ ~JSONParseStored(saved).ok
    \/ IsNull(JSONParseStored(saved).value)

\* C13: at the start the log becomes the stored list of messages, or the
\* empty log when the stored value is absent or corrupted; the stored history
\* makes no start fail; and the log of the running editor is always a
\* sequence.
C13_HistoryDegradesToEmpty ==
    /\ [][Mount => messages' = storedLog(localStorage[HistoryKey])]_vars
    /\ [][(Mount /\ ~settingsUnusable(localStorage[SettingsKey])) => app' = "running"]_vars
    /\ [](app = "running" => IsArray(messages))

\* C14: loading the settings never raises, whatever text is stored, and
\* absent or corrupted settings give the default settings and configuration.
C14_SettingsDegradeToDefault ==
    [][Mount =>
        /\ app' = "running"
        /\ settingsUnusable(localStorage[SettingsKey]) =>
              (settings' = defaultSettings /\ aiConfig' = configOf(defaultSettings))]_vars

IsPrefix(a, b) == Len(a) <= Len(b) /\ SubSeq(b, 1, Len(a)) = a

\* C15: every operation of the running editor other than the clear leaves
\* the log a sequence of which the previous log is a prefix, and the clear
\* removes every message.
C15_LogAppendOnly ==
    /\ [][(app = "running" /\ IsArray(messages) /\ ~ClearChat /\ ~Reload) =>
            (IsArray(messages') /\ IsPrefix(messages.items, messages'.items))]_vars
    /\ [][ClearChat => messages' = Arr(<<>>)]_vars

\* a request that went out without an endpoint or without an API key
Unconfigured(request) == request.endpoint = "" \/ request.apiKey = ""

\* C20: no connection test and no chat request goes out while the endpoint
\* or the API key it would use is empty, and a connection test that is
\* refused for it is reported.
C20_MissingConfigBlocks ==
    /\ [](\A k \in DOMAIN testRequests : ~Unconfigured(testRequests[k]))
    /\ [](\A k \in DOMAIN requests : ~Unconfigured(requests[k]))
    /\ [][(handleTestConnection /\ (formData.endpoint = "" \/ formData.apiKey = ""))
           => toast' = "ai_fill_required_fields"]_vars

\* the name of the table of the given identifier, "unknown" when there is none
tableOf(id) == {k \in DOMAIN tables : tables[k].id = id}
resolvedTable(id) ==
    IF tableOf(id) = {} THEN "unknown" ELSE tables[Least(tableOf(id))].name

\* the name of the field of the given identifiers, "unknown" when there is none
resolvedField(tableId, fieldId) ==
    IF tableOf(tableId) = {} THEN "unknown"
    ELSE LET table == tables[Least(tableOf(tableId))]
             hits == {k \in DOMAIN table.fields : table.fields[k].id = fieldId}
         IN  IF hits = {} THEN "unknown" ELSE table.fields[Least(hits)].name

\* C17: the builder returns a context for every diagram, and each side of a
\* context relationship is the name of the table its identifier matches, or
\* "unknown" when it matches none.
C17_UnknownForMissingTable ==
    context.built =>
        /\ Len(context.value.tables) = Len(tables)
        /\ Len(context.value.relationships) = Len(relationships)
        /\ \A k \in DOMAIN relationships :
              /\ context.value.relationships[k].fromTable
                    = resolvedTable(relationships[k].startTableId)
              /\ context.value.relationships[k].toTable
                    = resolvedTable(relationships[k].endTableId)

\* C18: fromField and toField of a context relationship are the names of the
\* fields the relationship identifies, not their identifiers.
C18_FieldsByName ==
    context.built =>
        \A k \in DOMAIN relationships :
            /\ context.value.relationships[k].fromField
                  = resolvedField(relationships[k].startTableId, relationships[k].startFieldId)
            /\ context.value.relationships[k].toField
                  = resolvedField(relationships[k].endTableId, relationships[k].endFieldId)

\* the identities of the objects a value holds on to
RefsOf(v) ==
    IF ~Has(v, "ref") THEN {}
    ELSE IF Has(v, "items") THEN {v.ref} \cup {v.items[k].ref : k \in DOMAIN v.items}
    ELSE {v.ref}

positionsOf(xs) == UNION {RefsOf(PropObject(xs[k], "position")) : k \in DOMAIN xs}

DiagramRefs ==
    positionsOf(tables) \cup positionsOf(areas) \cup positionsOf(notes)
    \cup RefsOf(types) \cup RefsOf(enums)

ContextRefs ==
    positionsOf(context.value.tables) \cup positionsOf(context.value.areas)
    \cup positionsOf(context.value.notes)
    \cup RefsOf(context.value.types) \cup RefsOf(context.value.enums)

\* C19: a built context holds no object of the diagram: positions, types
\* and enums of the context are objects of its own.
C19_ContextSharesNothing == context.built => ContextRefs \cap DiagramRefs = {}

\* the stages before the fallback found no table, relationship or note
nothingSpecific(json, heuristicTables, rel, heuristicNotes) ==
    /\ json.tables \o heuristicTables = <<>>
    /\ json.relationships \o rel.rels = <<>>
    /\ json.notes \o heuristicNotes = <<>>

fallbackRuns(response) ==
    nothingSpecific(jsonStage(response), tableStage(response), relStage(response),
                    noteStage(response))

\* the notes the general scan builds from the windows around the keywords
windowNotes(response) ==
    Flatten([k \in DOMAIN noteKeywords |-> generalNoteFor(response, noteKeywords[k])])

noteIn(note, found) == \E k \in DOMAIN found : found[k].content = note.content

\* C23: when the fallback runs on a text with a documentation keyword, the
\* result of parseAIResponse holds the note built from the window around the
\* keyword, if that note is long enough to be kept.
C23_FallbackKeepsWindowNote ==
    (parsed.done /\ ~parsed.threw /\ fallbackRuns(Response(prose, blocks))) =>
        \A k \in DOMAIN windowNotes(Response(prose, blocks)) :
            noteIn(windowNotes(Response(prose, blocks))[k], parsed.value.notes)

(***************************************************************************)
(* The apply batch and the validation of a table candidate                 *)
(***************************************************************************)
\* !value || typeof value !== 'string', for a property of a parsed document
notAString(obj, key) == ~Has(obj, key) \/ obj[key] = ""

fieldErrors(field, index) ==
    (IF notAString(field, "name") THEN <<"Field " \o ToString(index) \o " must have a name">>
     ELSE <<>>)
    \o (IF notAString(field, "type") THEN <<"Field " \o ToString(index) \o " must have a type">>
        ELSE <<>>)

\* validateSchema(schema), for a schema that is an object whose fields, when
\* it has any, are objects
validateSchema(schema) ==
    LET errors ==
            (IF notAString(schema, "name") THEN <<"Table name is required">> ELSE <<>>)
            \o (IF ~Has(schema, "fields") THEN <<"Table must have fields">>
                ELSE Flatten([k \in DOMAIN schema.fields |-> fieldErrors(schema.fields[k], k)]))
    IN  [isValid |-> errors = <<>>, errors |-> errors]

\* the table candidates of the batch that validateSchema rejects
rejected(items) ==
    {k \in DOMAIN items :
        /\ ~IsNull(items[k])
        /\ ~(Has(items[k], "fields") /\ \E f \in DOMAIN items[k].fields : IsNull(items[k].fields[f]))
        /\ ~validateSchema(items[k]).isValid}

\* C21: a table candidate that validateSchema rejects adds no table and
\* leaves exactly one error, and the batch goes on with the next item: in a
\* batch that ran to its end the outcome of every rejected table candidate is
\* an error.
C21_InvalidTableRejected ==
    (batch.ran /\ ~batch.aborted) =>
        \A k \in rejected(batch.suggestions.tables) : batch.log[k] = "table:error"



\* C22: applying is idempotent: a batch of the reply of the batch before it,
\* run on the diagram that batch left, adds no table, no relationship and no
\* note.
C22_ApplyIdempotent ==
    [][(batch.ran /\ batch'.ran /\ batch'.content = batch.content
        /\ batch'.before = Diagram /\ batch' # batch)
       => (tables' = tables /\ relationships' = relationships /\ notes' = notes)]_vars



\* the tables a relationship of the batch can name: those of the diagram the
\* batch started from, then those the batch added
batchTables == batch.before.tables \o batch.addedTables

batchTableNamed(name) ==
    CHOOSE k \in DOMAIN batchTables :
        /\ batchTables[k].name = name
        /\ \A j \in 1..(k - 1) : batchTables[j].name # name

resolves(name) == \E k \in DOMAIN batchTables : batchTables[k].name = name

\* the earliest field with the property, as a set of at most one field
earliest(fields, hit(_)) ==
    {fields[k] : k \in {i \in DOMAIN fields : hit(fields[i]) /\ \A j \in 1..(i - 1) : ~hit(fields[j])}}

\* the field the priority order names: the named one, else the primary one,
\* else the first
priorityField(fields, name) ==
    LET isNamed(f) == f.name = name
        isPrimary(f) == f.primary
    IN  IF earliest(fields, isNamed) # {} THEN earliest(fields, isNamed)
        ELSE IF earliest(fields, isPrimary) # {} THEN earliest(fields, isPrimary)
        ELSE {fields[k] : k \in DOMAIN fields \cap {1}}

\* the outcome of the j-th relationship candidate of a batch that ran to its end
relOutcome(j) == batch.log[Len(batch.suggestions.tables) + j]

\* the relationship the j-th candidate added
addedRelationship(j) ==
    relationships[Len(batch.before.relationships)
                  + Cardinality({i \in 1..j : relOutcome(i) = "rel:added"})]

relSource(j) == batchTables[batchTableNamed(Prop(batch.suggestions.relationships[j], "fromTable"))]
relTarget(j) == batchTables[batchTableNamed(Prop(batch.suggestions.relationships[j], "toTable"))]
bothResolve(j) ==
    /\ resolves(Prop(batch.suggestions.relationships[j], "fromTable"))
    /\ resolves(Prop(batch.suggestions.relationships[j], "toTable"))

\* C24: when both tables of a relationship candidate resolve, each end is the
\* field of the given name, else the primary field, else the first field of
\* its table; when a table has no field the candidate leaves one error and
\* no relationship.
C24_FieldPriority ==
    (batch.ran /\ ~batch.aborted) =>
        /\ Len(batch.errors) = Count(batch.log, ErrorOutcomes)
        /\ Len(relationships) = Len(batch.before.relationships) + Count(batch.log, {"rel:added"})
        /\ \A j \in DOMAIN batch.suggestions.relationships :
              bothResolve(j) =>
                  IF relSource(j).fields = <<>> \/ relTarget(j).fields = <<>>
                  THEN relOutcome(j) = "rel:no-field"
                  ELSE /\ relOutcome(j) = "rel:added"
                       /\ {f.id : f \in priorityField(relSource(j).fields,
                               Prop(batch.suggestions.relationships[j], "fromField"))}
                          = {addedRelationship(j).startFieldId}
                       /\ {f.id : f \in priorityField(relTarget(j).fields,
                               Prop(batch.suggestions.relationships[j], "toField"))}
                          = {addedRelationship(j).endFieldId}

\* a batch with an end on the first field of a table without a key and
\* without the field asked for, and with a candidate on a table without fields
C24_Witness ==
    /\ batch.ran /\ ~batch.aborted
    /\ \E j \in DOMAIN batch.suggestions.relationships :
          /\ bothResolve(j) /\ relOutcome(j) = "rel:no-field"
    /\ \E j \in DOMAIN batch.suggestions.relationships :
          /\ bothResolve(j) /\ relOutcome(j) = "rel:added"
          /\ \A k \in DOMAIN relSource(j).fields :
                /\ ~relSource(j).fields[k].primary
                /\ relSource(j).fields[k].name # Prop(batch.suggestions.relationships[j], "fromField")
          /\ addedRelationship(j).startFieldId = relSource(j).fields[1].id



\* the outcome of the j-th note candidate of a batch that ran to its end
noteOutcome(j) ==
    batch.log[Len(batch.suggestions.tables) + Len(batch.suggestions.relationships) + j]

\* the note the j-th candidate added
addedNote(j) ==
    notes[Len(batch.before.notes)
          + Cardinality({i \in 1..j : noteOutcome(i) \in {"note:added", "note:added-then-error"}})]

\* the suggestions applied before the j-th note candidate
appliedBefore(j) ==
    Cardinality({i \in 1..(Len(batch.suggestions.tables) + Len(batch.suggestions.relationships)
                           + j - 1) : batch.log[i] \in AppliedOutcomes})

\* C25: a note candidate with a position {x, y} is placed at (x, y), a
\* coordinate 0 included; a candidate without a position is placed at
\* (100 + 200*k, 100 + 100*k), k the suggestions applied before it.
C25_NoteAtItsPosition ==
    (batch.ran /\ ~batch.aborted) =>
        \A j \in DOMAIN batch.suggestions.notes :
            noteOutcome(j) = "note:added" =>
                IF Has(batch.suggestions.notes[j], "position")
                THEN /\ addedNote(j).x = batch.suggestions.notes[j].position.x
                     /\ addedNote(j).y = batch.suggestions.notes[j].position.y
                ELSE /\ addedNote(j).x = 100 + (200 * appliedBefore(j))
                     /\ addedNote(j).y = 100 + (100 * appliedBefore(j))



\* the elements the batch added to the diagram
mutations ==
    (Len(tables) - Len(batch.before.tables))
    + (Len(relationships) - Len(batch.before.relationships))
    + (Len(notes) - Len(batch.before.notes))

\* C26: after a batch the applied count is the number of elements the batch
\* added to the diagram, and a candidate that left an error added none: the
\* elements added and the errors together are no more than the candidates.
C26_CountIsMutations ==
    (batch.ran /\ ~batch.aborted) =>
        /\ batch.appliedCount = mutations
        /\ mutations + Len(batch.errors) <= ItemCount



\* the field id is the id of a field of the table of the batch with the table id
fieldOfTable(tableId, fieldId) ==
    \E k \in DOMAIN batchTables :
        /\ batchTables[k].id = tableId
        /\ batchTables[k] \in {tables[i] : i \in DOMAIN tables}
        /\ \E f \in DOMAIN batchTables[k].fields : batchTables[k].fields[f].id = fieldId

\* the relationship candidates of the batch that added a relationship
relAdded ==
    {j \in DOMAIN batch.suggestions.relationships :
        /\ Len(batch.suggestions.tables) + j \in DOMAIN batch.log
        /\ relOutcome(j) = "rel:added"}

\* C27: every relationship the batch added joins a field of a table of the
\* diagram, or of a table added earlier in the batch, to a field of such a
\* table: its table ids are ids of those tables and each field id is the id
\* of a field of the table on its side.
C27_RelationshipsReferToTables ==
    batch.ran =>
        \A j \in relAdded :
            /\ fieldOfTable(addedRelationship(j).startTableId, addedRelationship(j).startFieldId)
            /\ fieldOfTable(addedRelationship(j).endTableId, addedRelationship(j).endFieldId)

\* a batch added a relationship from a table it added itself to a table the
\* diagram had, on two different fields
C27_Witness ==
    /\ batch.ran
    /\ \E j \in relAdded :
          /\ \E k \in DOMAIN batch.addedTables :
                batch.addedTables[k].id = addedRelationship(j).startTableId
          /\ \E k \in DOMAIN batch.before.tables :
                batch.before.tables[k].id = addedRelationship(j).endTableId
          /\ addedRelationship(j).startFieldId # addedRelationship(j).endFieldId



(***************************************************************************)
(* The apply button                                                        *)
(***************************************************************************)
\* a search for the keywords of hasActionableContent in any letter case, as
\* hasActionableSuggestions makes it for its own list
anyCaseKeyword(content) ==
    LET lower == toLowerCase(content)
    IN  \E keyword \in actionKeywords : includes(lower, toLowerCase(keyword))

\* C29: the apply button of a message of the assistant is offered exactly when
\* the content holds one of the keywords of hasActionableContent in any
\* letter case.
C29_ApplyOfferedInAnyCase ==
    \A k \in DOMAIN messages :
        messages[k].role = "ai" =>
            (showsApply(messages[k]) <=> anyCaseKeyword(messages[k].content))



(***************************************************************************)
(* aiActions                                                               *)
(***************************************************************************)
\* the last call was one of the two single appliers
singleCall ==
    /\ batch.ran
    /\ Has(batch, "call")
    /\ batch.call \in {"applyTableSuggestion", "applyRelationshipSuggestion"}

\* the input the claim calls invalid, or one the applier cannot read
unusableInput ==
    IF batch.call = "applyTableSuggestion" THEN tableThrows(batch.input)
    ELSE relationshipThrows(batch.input)

\* C30: applyTableSuggestion and applyRelationshipSuggestion are all or
\* nothing and never throw: on invalid input they return success false and
\* leave the diagram and both stacks as they were; on valid input they add one
\* element, append exactly one entry to the undo stack and empty the redo
\* stack.
C30_AllOrNothing ==
    singleCall =>
        /\ ~batch.threw
        /\ IF unusableInput
           THEN ~batch.success /\ Diagram = batch.before
           ELSE /\ batch.success
                /\ Len(tables) + Len(relationships)
                   = Len(batch.before.tables) + Len(batch.before.relationships) + 1
                /\ Len(undoStack) = Len(batch.before.undoStack) + 1
                /\ redoStack = <<>>



(***************************************************************************)
(* The stored history and the log                                          *)
(***************************************************************************)
\* the log as JSON.parse gives it back from its own text
revivedLog(log) ==
    IF IsArray(log) THEN Arr([k \in DOMAIN log.items |-> revived(log.items[k])]) ELSE log

====
